---- MODULE Spec2Model ----
(***************************************************************************)
(* Model of the Cognitive Interaction Pipeline of the AI-Native backend:   *)
(* AIGateway.process_interaction (src/backend/core/ai_gateway.py) with its *)
(* collaborators (session/trace/risk repositories, response cache,         *)
(* language-model provider, metrics module).                               *)
(*                                                                         *)
(* One request is processed at a time; pc is the position inside           *)
(* process_interaction.  Every call to a collaborator may succeed or fail  *)
(* (an exception), chosen nondeterministically.  Identifiers produced by   *)
(* uuid4 are modelled as <<request number, tag>> pairs, which are unique.  *)
(***************************************************************************)
EXTENDS Integers, Sequences, FiniteSets, TLC

VARIABLES
    config,      \* which dependencies were injected at construction
    sessions,    \* rows of the sessions table (session_repo)
    sequences,   \* rows of the trace_sequences table (sequence_repo)
    traces,      \* rows of the cognitive_traces table (trace_repo), in write order
    risks,       \* rows of the risks table (risk_repo), in write order
    cacheStore,  \* entries of the LLM response cache
    pc,          \* position of the current request inside process_interaction
    req,         \* arguments of the current request
    loc,         \* local variables of the current request
    log,         \* collaborator calls made by the current request, in order
    nreq,        \* number of requests started so far
    faults,      \* number of repository and metrics calls that have failed so far
    start,       \* the risks table and the cache when the current request started
    prev,        \* arguments and result of the previous request
    report       \* a RiskReport (models/risk.py) under construction

vars ==
    <<config, sessions, sequences, traces, risks, cacheStore, pc, req, loc, log,
      nreq, faults, start, prev, report>>

----------------------------------------------------------------------------
(* Bounds of the model *)

\* number of process_interaction calls in one behaviour
MaxRequests == 2
\* number of create_session calls in one behaviour
MaxSessions == 1
\* number of repository and metrics calls that fail in one behaviour (the
\* language model may fail in every request)
MaxFaults == 1
\* longest prompt drawn as input (characters, before strip)
MaxPromptLen == 5
\* most digits of the integer value held by a context entry
MaxDigits == 4
\* most entries of a context dict
MaxEntries == 2
\* most non-blank characters of a decision_justification
MaxJustificationLen == 22
\* most blanks before, and after, the text of a decision_justification
MaxPadding == 1
\* most entries of alternatives_considered
MaxAlternatives == 1
\* most traces of a student history
MaxHistory == 7
\* number of add_risk calls on one RiskReport
MaxReportRisks == 4
\* most traces stored for the session of an evaluation request
MaxSessionTraces == 2
\* most rows of the risks table when a risk report is asked for
MaxStoredRisks == 2

(* Limits imported from core/constants.py, scaled down *)
SESSION_ID_MAX_LENGTH == 3
PROMPT_MIN_LENGTH == 2
PROMPT_MAX_LENGTH == 4
CONTEXT_MAX_SIZE_BYTES == 10

None == "None"

----------------------------------------------------------------------------
(* Strings are sequences of characters; "a" is any non-blank character. *)

Chars == {"a", " "}

RECURSIVE SeqsUpTo(_, _)
SeqsUpTo(S, n) ==
    IF n = 0 THEN {<<>>}
    ELSE LET shorter == SeqsUpTo(S, n - 1)
         IN  shorter \cup {Append(s, c) : s \in {t \in shorter : Len(t) = n - 1}, c \in S}

\* str.lstrip() / str.rstrip() / str.strip() on blanks
RECURSIVE lstrip(_)
lstrip(s) == IF s # <<>> /\ Head(s) = " " THEN lstrip(Tail(s)) ELSE s

RECURSIVE rstrip(_)
rstrip(s) ==
    IF s # <<>> /\ s[Len(s)] = " " THEN rstrip(SubSeq(s, 1, Len(s) - 1)) ELSE s

strip(s) == rstrip(lstrip(s))

----------------------------------------------------------------------------
(* The context argument.  kind "none" is None, "nondict" any value that is *)
(* not a dict, "dict" a dict with one-character keys; entry i holds an     *)
(* integer of vals[i] digits, or (0) an object json cannot serialize.      *)

NoContext == [kind |-> "none", vals |-> <<>>]
NonDictContext == [kind |-> "nondict", vals |-> <<>>]
DictContext(vals) == [kind |-> "dict", vals |-> vals]

RECURSIVE SumSeq(_)
SumSeq(s) == IF s = <<>> THEN 0 ELSE Head(s) + SumSeq(Tail(s))

\* json.dumps(context) raises TypeError on an object it cannot serialize
json_serializable(context) == \A i \in 1..Len(context.vals) : context.vals[i] # 0

\* len(json.dumps(context).encode('utf-8')) for a serializable dict; the text is
\* {"k": 123, "l": 4}: 2 braces, per entry 3 (quoted key) + 2 (": ") + digits,
\* and ", " between entries.  The text is ASCII (ensure_ascii), so its UTF-8
\* encoding has as many bytes as it has characters.
json_dumps_size(context) ==
    LET v == context.vals
        n == Len(v)
    IN  2 + SumSeq(v) + 5 * n + (IF n > 1 THEN 2 * (n - 1) ELSE 0)

----------------------------------------------------------------------------
(* AIGateway._validate_interaction_input: "ok" or "ValueError" *)

\* the size check of the context, inside the try block of lines 1118-1125:
\* the ValueError raised for an oversized context is caught by the handler
\* and raised again as a ValueError
ContextTooLarge(size) == size > CONTEXT_MAX_SIZE_BYTES

\* a variant that also rejects a prompt of exactly the minimum length
PromptNotLonger(prompt_length) == prompt_length <= PROMPT_MIN_LENGTH

PromptTooShort(prompt_length) == prompt_length < PROMPT_MIN_LENGTH

PromptTooLong(prompt_length) == prompt_length > PROMPT_MAX_LENGTH

\* lines 1112-1125
_validate_context(context) ==
    IF context.kind = "none" THEN "ok"
    ELSE IF context.kind # "dict" THEN "ValueError"
    ELSE IF ~json_serializable(context) THEN "ValueError"
    ELSE IF ContextTooLarge(json_dumps_size(context)) THEN "ValueError"
    ELSE "ok"

\* lines 1088-1095
_validate_session_id(session_id) ==
    IF session_id = <<>> THEN "ValueError"
    ELSE IF Len(session_id) > SESSION_ID_MAX_LENGTH THEN "ValueError"
    ELSE "ok"

\* lines 1097-1110: the length that is checked is that of prompt.strip()
_validate_prompt(prompt) ==
    IF prompt = <<>> THEN "ValueError"
    ELSE LET prompt_length == Len(strip(prompt))
         IN  IF PromptTooShort(prompt_length) THEN "ValueError"
             ELSE IF PromptTooLong(prompt_length) THEN "ValueError"
             ELSE "ok"

\* a variant that checks the session id alone
_validate_session_id_only(session_id, prompt, context) ==
    _validate_session_id(session_id)

\* lines 1063-1134: session id, then prompt, then context
_validate_interaction_input(session_id, prompt, context) ==
    IF _validate_session_id(session_id) # "ok" THEN "ValueError"
    ELSE IF _validate_prompt(prompt) # "ok" THEN "ValueError"
    ELSE _validate_context(context)

----------------------------------------------------------------------------
(* Values of the pipeline *)

\* AgentMode members handled by process_interaction, and one that is not
Modes == {"TUTOR", "SIMULATOR", "EVALUATOR", "RISK_ANALYST"}

\* session ids: the one SessionRepository.create hands out, an id no row has,
\* the empty id and an id longer than SESSION_ID_MAX_LENGTH
SessionId(n) == <<"s", n>>
UnknownSessionId == <<"s", 0>>
OverlongSessionId == <<"s", 0, 0, 0>>

\* an optional text: Python's None or a str
NoText == [some |-> FALSE, val |-> <<>>]
Some(t) == [some |-> TRUE, val |-> t]

\* Classification, the dict returned by CognitiveReasoningEngine.classify_prompt
Classification ==
    [is_delegation : BOOLEAN, is_question : BOOLEAN,
     cognitive_state : {None, "EXPLORACION"}]

NoClassification ==
    [is_delegation |-> FALSE, is_question |-> FALSE, cognitive_state |-> None]

\* CognitiveReasoningEngine.should_block_response: block iff is_delegation,
\* with a reason to show to the learner
should_block_response(classification) ==
    IF classification.is_delegation
    THEN [should_block |-> TRUE, block_reason |-> <<"delegation-reason">>]
    ELSE [should_block |-> FALSE, block_reason |-> <<>>]

\* strategy["response_type"] values the strategy selector can produce
ResponseTypes ==
    {"socratic_questioning", "conceptual_explanation", "guided_hints", "unknown"}

\* what the language model can answer: a text, possibly padded with blanks
LLMContents == {<<"a">>, <<" ", "a">>}

\* the canned texts of the except branches of the three generators
SocraticFallback == <<"canned-socratic">>
ConceptualFallback == <<"canned-conceptual">>
GuidedHintsFallback == <<"canned-hints">>

\* the dict a mode handler returns; from_cache is "absent" when metadata has
\* no such key, blocked is TRUE only for the dict of _generate_blocked_response
NoResponse ==
    [text |-> <<>>, key |-> "none", blocked |-> FALSE, block_reason |-> <<>>,
     mode |-> None, from_cache |-> "absent"]

NoLocals ==
    [student_id |-> None, activity_id |-> None, current_mode |-> None,
     classification |-> NoClassification,
     should_block |-> FALSE, block_reason |-> <<>>,
     input_trace_id |-> <<>>, response_trace_id |-> <<>>,
     response_type |-> None, cached_response |-> NoText, message |-> NoText,
     llm_failed |-> FALSE, response |-> NoResponse, detected_risks |-> <<>>,
     analysis |-> <<>>, analyzed |-> <<>>, raised_by |-> None]

NoRequest == [session_id |-> <<>>, prompt |-> <<>>, context |-> NoContext]

\* what is remembered of the previous call: how it ended and, when it returned,
\* its prompt, mode, strategy and cognitive state and the response
NoPrev ==
    [outcome |-> None, prompt |-> <<>>, mode |-> None, response_type |-> None,
     cognitive_state |-> None, response |-> NoResponse, llm_calls |-> 0]

\* RiskReport as constructed: the counters at 0, no risks
NoReport ==
    [total_risks |-> 0, critical_risks |-> 0, high_risks |-> 0, medium_risks |-> 0,
     low_risks |-> 0, risk_distribution |-> <<>>, risks |-> <<>>]

\* number of entries of the log that are the call c
RECURSIVE Count(_, _)
Count(s, c) ==
    IF s = <<>> THEN 0 ELSE (IF Head(s) = c THEN 1 ELSE 0) + Count(Tail(s), c)

\* the elements of a sequence
Range(s) == {s[i] : i \in 1..Len(s)}

----------------------------------------------------------------------------
(* Inputs of a request *)

SessionIdInputs ==
    {SessionId(n) : n \in 1..Len(sessions)}
        \cup {UnknownSessionId, <<>>, OverlongSessionId}

\* the empty prompt, prompts around PROMPT_MIN_LENGTH (one of raw length
\* PROMPT_MIN_LENGTH that strip() shortens), two accepted prompts and one
\* longer than PROMPT_MAX_LENGTH
PromptInputs ==
    {<<>>, <<"a">>, <<"a", " ">>, <<"a", "a">>, <<"a", "a", "a">>,
     <<"a", "a", "a", "a", "a">>}

\* no context, and the three ways a context is rejected
ContextInputs ==
    {NoContext, NonDictContext, DictContext(<<0>>), DictContext(<<4>>)}

\* the arguments of a call: at most one of them is one that validation rejects
RequestInputs ==
    {t \in SessionIdInputs \X PromptInputs \X ContextInputs :
        Cardinality({i \in 1..3 :
            CASE i = 1 -> _validate_session_id(t[1]) # "ok"
              [] i = 2 -> _validate_prompt(t[2]) # "ok"
              [] i = 3 -> _validate_context(t[3]) # "ok"}) <= 1}

----------------------------------------------------------------------------
(* AIGateway.__init__: the injected dependencies; metrics tells whether    *)
(* _get_metrics() finds the monitoring module                              *)

AllInjected ==
    [session_repo |-> TRUE, trace_repo |-> TRUE, risk_repo |-> TRUE,
     sequence_repo |-> TRUE, cache |-> TRUE, metrics |-> TRUE]

\* every dependency injected, or exactly one of them missing
Configs ==
    {AllInjected} \cup {[AllInjected EXCEPT ![d] = FALSE] : d \in DOMAIN AllInjected}

Init ==
    /\ config \in Configs
    /\ sessions = <<>>
    /\ sequences = {}
    /\ traces = <<>>
    /\ risks = <<>>
    /\ cacheStore = {}
    /\ pc = "idle"
    /\ req = NoRequest
    /\ loc = NoLocals
    /\ log = <<>>
    /\ nreq = 0
    /\ faults = 0
    /\ start = [risks |-> <<>>, cacheStore |-> {}]
    /\ prev = NoPrev
    /\ report = NoReport

\* the outcomes of a collaborator call: TRUE it succeeds, FALSE it raises
CallOutcomes == IF faults < MaxFaults THEN BOOLEAN ELSE {TRUE}

Fault(failed) == faults' = IF failed THEN faults + 1 ELSE faults

\* the caller is between two calls of the gateway
Idle == pc \in {"idle", "returned", "raised"}

----------------------------------------------------------------------------
(* AIGateway.create_session *)

StudentIds == {"st1"}
ActivityIds == {"act1"}

\* the id of the n-th session made without a session repository: a fresh uuid
FreshSessionId(n) == <<"u", n>>

\* a variant that builds a session repository on first use and keeps it in
\* self.session_repo
create_session_keeping_repo(student_id, activity_id, mode) ==
    /\ Idle
    /\ Len(sessions) < MaxSessions
    /\ sessions' = Append(sessions,
           [student_id |-> student_id, activity_id |-> activity_id, mode |-> mode])
    /\ sequences' = IF config.sequence_repo
                    THEN sequences \cup {SessionId(Len(sessions) + 1)}
                    ELSE sequences
    /\ config' = [config EXCEPT !.session_repo = TRUE]
    /\ UNCHANGED <<traces, risks, cacheStore, pc, req, loc, log, nreq, faults, start, prev, report>>

\* lines 130-181: the session row, then the trace sequence of the session;
\* without a session repository the id is a fresh uuid and no row is written
create_session(student_id, activity_id, mode) ==
    /\ Idle
    /\ IF config.session_repo
       THEN /\ Len(sessions) < MaxSessions
            /\ sessions' = Append(sessions,
                   [student_id |-> student_id, activity_id |-> activity_id, mode |-> mode])
            /\ sequences' = IF config.sequence_repo
                            THEN sequences \cup {SessionId(Len(sessions) + 1)}
                            ELSE sequences
       ELSE /\ Cardinality(sequences) < MaxSessions
            /\ sessions' = sessions
            /\ sequences' = IF config.sequence_repo
                            THEN sequences \cup {FreshSessionId(Cardinality(sequences) + 1)}
                            ELSE sequences
    /\ UNCHANGED <<config, traces, risks, cacheStore, pc, req, loc, log, nreq, faults, start, prev, report>>

CreateSession ==
    \E st \in StudentIds, act \in ActivityIds, m \in Modes : create_session(st, act, m)

----------------------------------------------------------------------------
(* AIGateway.process_interaction, lines 213-227: validation, session lookup *)

\* what the caller keeps of the call that just ended
PrevOf ==
    IF pc = "idle" THEN NoPrev
    ELSE IF pc = "raised" THEN [NoPrev EXCEPT !.outcome = "raised"]
    ELSE [outcome |-> "returned", prompt |-> req.prompt, mode |-> loc.current_mode,
          response_type |-> loc.response_type,
          cognitive_state |-> loc.classification.cognitive_state,
          response |-> loc.response, llm_calls |-> Count(log, "llm.generate")]

Raise(by) == /\ pc' = "raised"
             /\ loc' = [loc EXCEPT !.raised_by = by]

\* line 214: the call starts with _validate_interaction_input
Validate ==
    /\ Idle
    /\ nreq < MaxRequests
    /\ \E t \in RequestInputs :
          /\ req' = [session_id |-> t[1], prompt |-> t[2], context |-> t[3]]
          /\ IF _validate_interaction_input(t[1], t[2], t[3]) = "ok"
             THEN /\ pc' = "lookup"
                  /\ loc' = NoLocals
             ELSE /\ pc' = "raised"
                  /\ loc' = [NoLocals EXCEPT !.raised_by = "validation"]
    /\ prev' = PrevOf
    /\ start' = [risks |-> risks, cacheStore |-> cacheStore]
    /\ log' = <<>>
    /\ nreq' = nreq + 1
    /\ UNCHANGED <<config, sessions, sequences, traces, risks, cacheStore, faults, report>>

\* Python's None where a session row is expected
NoSession == [student_id |-> None, activity_id |-> None, mode |-> None]

\* a variant that answers an unknown id with a row of its own making
get_by_id_or_default(session_id) ==
    IF \E n \in 1..Len(sessions) : SessionId(n) = session_id
    THEN sessions[session_id[2]]
    ELSE [student_id |-> "st1", activity_id |-> "act1", mode |-> "TUTOR"]

\* SessionRepository.get_by_id: the row, or None
get_by_id(session_id) ==
    IF \E n \in 1..Len(sessions) : SessionId(n) = session_id
    THEN sessions[session_id[2]]
    ELSE NoSession

\* lines 216-227
Lookup ==
    /\ pc = "lookup"
    /\ IF ~config.session_repo
       THEN /\ Raise("session")
            /\ log' = log
       ELSE /\ log' = Append(log, "session_repo.get_by_id")
            /\ LET db_session == get_by_id(req.session_id)
               IN  IF db_session # NoSession
                   THEN /\ loc' = [loc EXCEPT !.student_id = db_session.student_id,
                                              !.activity_id = db_session.activity_id,
                                              !.current_mode = db_session.mode]
                        /\ pc' = "classify"
                   ELSE Raise("session")
    /\ UNCHANGED <<config, sessions, sequences, traces, risks, cacheStore, req, nreq, faults, start, prev, report>>

\* lines 229-238: classify_prompt, should_block_response
Classify ==
    /\ pc = "classify"
    /\ \E classification \in Classification :
          LET gate == should_block_response(classification)
          IN  loc' = [loc EXCEPT !.classification = classification,
                                 !.should_block = gate.should_block,
                                 !.block_reason = gate.block_reason]
    /\ log' = Append(log, "classify_prompt")
    /\ pc' = "input_trace"
    /\ UNCHANGED <<config, sessions, sequences, traces, risks, cacheStore, req, nreq, faults, start, prev, report>>

----------------------------------------------------------------------------
(* AIGateway._create_trace and _persist_trace *)

\* CognitiveTrace.ai_involvement when _create_trace is not given one, in tenths
DefaultAiInvolvement == 5

_create_trace(tag, interaction_type, content, agent_id) ==
    [id |-> <<nreq, tag>>, session_id |-> req.session_id,
     student_id |-> loc.student_id, activity_id |-> loc.activity_id,
     interaction_type |-> interaction_type, content |-> content,
     agent_id |-> agent_id]

\* the table after _persist_trace: a failed create is logged and swallowed
TracesAfterPersist(trace, create_ok) ==
    IF config.trace_repo /\ create_ok THEN Append(traces, trace) ELSE traces

\* a variant that lets the failure of create leave the call
PersistTraceRaising(create_ok) ==
    IF config.trace_repo /\ ~create_ok THEN "trace_write" ELSE "ok"

\* _persist_trace, lines 643-682: where the call ends; the except branch
\* (lines 665-674) logs the failure and falls through to the return
PersistTraceOutcome(create_ok) == "ok"

\* a variant that never attempts the write
CallsOfPersistTraceSkipped(trace, create_ok) == <<>>

\* the calls _persist_trace makes; record_trace_creation runs inside the try
\* block, so its failure is swallowed like a failure of create
CallsOfPersistTrace(trace, create_ok) ==
    IF ~config.trace_repo THEN <<>>
    ELSE <<"trace_repo.create:" \o trace.interaction_type>>
         \o (IF create_ok /\ config.metrics
             THEN <<"metrics.record_trace_creation">> ELSE <<>>)

\* a variant that runs the normal pipeline whatever the gate said
AfterInputTraceUngated(should_block) == "strategy"

\* line 254, "if should_block:": the governance block, or the normal pipeline
AfterInputTrace(should_block) ==
    IF should_block THEN "blocked_response" ELSE "strategy"

\* lines 240-254: the input trace, then the branch on should_block
InputTrace ==
    /\ pc = "input_trace"
    /\ LET input_trace == _create_trace("input", "student_prompt", req.prompt, None)
       IN  \E create_ok \in CallOutcomes :
              /\ traces' = TracesAfterPersist(input_trace, create_ok)
              /\ log' = log \o CallsOfPersistTrace(input_trace, create_ok)
              /\ Fault(config.trace_repo /\ ~create_ok)
              /\ IF PersistTraceOutcome(create_ok) = "ok"
                 THEN /\ loc' = [loc EXCEPT !.input_trace_id = input_trace.id]
                      /\ pc' = AfterInputTrace(loc.should_block)
                 ELSE Raise(PersistTraceOutcome(create_ok))
    /\ UNCHANGED <<config, sessions, sequences, risks, cacheStore, req, nreq, start, prev, report>>

----------------------------------------------------------------------------
(* The governance block, lines 254-296 *)

BlockedMessage(reason) == <<"delegation-detected">> \o reason \o <<"reformulate">>

\* _generate_blocked_response, lines 354-388
_generate_blocked_response(reason, classification) ==
    [text |-> BlockedMessage(reason), key |-> "response", blocked |-> TRUE,
     block_reason |-> reason, mode |-> None, from_cache |-> "absent"]

\* lines 255-267: the blocked response and its intervention trace
BlockedResponse ==
    /\ pc = "blocked_response"
    /\ LET response == _generate_blocked_response(loc.block_reason, loc.classification)
           intervention_trace ==
               _create_trace("intervention", "tutor_intervention", response.text, "GOV-IA")
       IN  \E create_ok \in CallOutcomes :
              /\ traces' = TracesAfterPersist(intervention_trace, create_ok)
              /\ log' = log \o CallsOfPersistTrace(intervention_trace, create_ok)
              /\ Fault(config.trace_repo /\ ~create_ok)
              /\ IF PersistTraceOutcome(create_ok) = "ok"
                 THEN /\ loc' = [loc EXCEPT !.response = response]
                      /\ pc' = "block_risk"
                 ELSE Raise(PersistTraceOutcome(create_ok))
    /\ UNCHANGED <<config, sessions, sequences, risks, cacheStore, req, nreq, start, prev, report>>

\* a variant that leaves the evidence of the risk out
RiskWithoutEvidence(tag, risk_type, risk_level, dimension, trace_ids) ==
    [id |-> <<nreq, tag>>, session_id |-> req.session_id,
     student_id |-> loc.student_id, activity_id |-> loc.activity_id,
     risk_type |-> risk_type, risk_level |-> risk_level, dimension |-> dimension,
     trace_ids |-> <<>>]

\* the Risk built at lines 775-787 of _persist_risk
Risk(tag, risk_type, risk_level, dimension, trace_ids) ==
    [id |-> <<nreq, tag>>, session_id |-> req.session_id,
     student_id |-> loc.student_id, activity_id |-> loc.activity_id,
     risk_type |-> risk_type, risk_level |-> risk_level, dimension |-> dimension,
     trace_ids |-> trace_ids]

\* a variant that swallows every failure, as _persist_trace does
PersistRiskSwallowing(create_ok, metrics_ok) == "ok"

\* _persist_risk, lines 761-841: where the call ends, "ok" or the exception
\* that leaves it; both a failed create and a failed record_risk_detection
\* are logged and raised again
PersistRiskOutcome(create_ok, metrics_ok) ==
    IF ~config.risk_repo THEN "ok"
    ELSE IF ~create_ok THEN "risk_write"
    ELSE IF config.metrics /\ ~metrics_ok THEN "metrics"
    ELSE "ok"

RisksAfterPersist(risk, create_ok) ==
    IF config.risk_repo /\ create_ok THEN Append(risks, risk) ELSE risks

CallsOfPersistRisk(create_ok) ==
    IF ~config.risk_repo THEN <<>>
    ELSE <<"risk_repo.create">>
         \o (IF create_ok /\ config.metrics
             THEN <<"metrics.record_risk_detection">> ELSE <<>>)

\* lines 269-280: the delegation risk of the blocked request
PersistBlockRisk ==
    /\ pc = "block_risk"
    /\ LET risk == Risk("block", "cognitive_delegation", "high", "cognitive",
                        <<loc.input_trace_id>>)
       IN  \E create_ok \in CallOutcomes, metrics_ok \in CallOutcomes :
              LET outcome == PersistRiskOutcome(create_ok, metrics_ok)
              IN  /\ risks' = RisksAfterPersist(risk, create_ok)
                  /\ log' = log \o CallsOfPersistRisk(create_ok)
                  /\ Fault(outcome # "ok")
                  /\ IF outcome = "ok"
                     THEN /\ pc' = "block_metrics"
                          /\ loc' = loc
                     ELSE Raise(outcome)
    /\ UNCHANGED <<config, sessions, sequences, traces, cacheStore, req, nreq, start, prev, report>>

\* the calls made on the metrics module until one of them raises: calls is
\* the list the code would make, failing the index of the one that raises
\* (0: none)
FailingCall(calls) == IF faults < MaxFaults THEN 0..Len(calls) ELSE {0}

CallsUntilFailure(calls, failing) ==
    IF failing = 0 THEN calls ELSE SubSeq(calls, 1, failing)

\* lines 282-296: record_interaction and record_governance_block are called
\* outside any try block, then the response is returned
BlockMetrics ==
    /\ pc = "block_metrics"
    /\ LET calls == IF config.metrics
                    THEN <<"metrics.record_interaction", "metrics.record_governance_block">>
                    ELSE <<>>
       IN  \E failing \in FailingCall(calls) :
              /\ log' = log \o CallsUntilFailure(calls, failing)
              /\ Fault(failing # 0)
              /\ IF failing = 0
                 THEN /\ pc' = "returned"
                      /\ loc' = loc
                 ELSE Raise("metrics")
    /\ UNCHANGED <<config, sessions, sequences, traces, risks, cacheStore, req, nreq, start, prev, report>>

----------------------------------------------------------------------------
(* Strategy, lines 298-304 *)

\* _get_student_history reads trace_repo.get_by_student outside any try
\* block (line 694); rows that fail to convert are skipped.  The strategy
\* selector then picks a response type.
Strategy ==
    /\ pc = "strategy"
    /\ \E read_ok \in CallOutcomes, response_type \in ResponseTypes :
          IF config.trace_repo /\ ~read_ok
          THEN /\ Raise("history")
               /\ log' = Append(log, "trace_repo.get_by_student")
               /\ Fault(TRUE)
          ELSE /\ Fault(FALSE) /\ loc' = [loc EXCEPT !.response_type = response_type]
               /\ log' = log
                         \o (IF config.trace_repo
                             THEN <<"trace_repo.get_by_student">> ELSE <<>>)
                         \o <<"generate_strategy">>
               /\ pc' = "dispatch"
    /\ UNCHANGED <<config, sessions, sequences, traces, risks, cacheStore, req, nreq, start, prev, report>>

----------------------------------------------------------------------------
(* The response cache: LLMResponseCache.get / set *)

\* the key is derived from the normalized prompt, the mode and the context
CacheKey(prompt, context, mode) ==
    [prompt |-> strip(prompt), mode |-> mode,
     response_type |-> context.response_type,
     cognitive_state |-> context.cognitive_state]

cache_get(prompt, context, mode) ==
    LET hits == {e \in cacheStore : e.key = CacheKey(prompt, context, mode)}
    IN  IF hits = {} THEN NoText ELSE Some((CHOOSE e \in hits : TRUE).response)

cache_set(prompt, response, context, mode) ==
    {e \in cacheStore : e.key # CacheKey(prompt, context, mode)}
        \cup {[key |-> CacheKey(prompt, context, mode), response |-> response]}

----------------------------------------------------------------------------
(* AIGateway._process_tutor_mode, lines 390-470, and the other handlers *)

\* a variant that leaves the strategy out of the cache context
cache_context_without_strategy ==
    [response_type |-> None,
     cognitive_state |-> loc.classification.cognitive_state]

\* lines 414-417
cache_context ==
    [response_type |-> loc.response_type,
     cognitive_state |-> loc.classification.cognitive_state]

\* a variant that never flags a response as cached
TutorResponseUnflagged(message, cached_response) ==
    [text |-> message, key |-> "response", blocked |-> FALSE, block_reason |-> <<>>,
     mode |-> "tutor", from_cache |-> "false"]

\* lines 461-470; from_cache is "cached_response is not None"
TutorResponse(message, cached_response) ==
    [text |-> message, key |-> "response", blocked |-> FALSE, block_reason |-> <<>>,
     mode |-> "tutor",
     from_cache |-> IF cached_response.some THEN "true" ELSE "false"]

\* lines 589-617 and 320: the placeholders of the other modes
PlaceholderResponse(current_mode) ==
    [text |-> IF current_mode = "SIMULATOR" THEN <<"simulator-placeholder">>
              ELSE IF current_mode = "EVALUATOR" THEN <<"evaluator-placeholder">>
              ELSE <<"mode-not-implemented">>,
     key |-> "message", blocked |-> FALSE, block_reason |-> <<>>,
     mode |-> IF current_mode = "SIMULATOR" THEN "simulator"
              ELSE IF current_mode = "EVALUATOR" THEN "evaluator" ELSE None,
     from_cache |-> "absent"]

\* a variant that generates a message whatever the lookup returned
NeverCacheHit(cached_response) == FALSE

\* line 428, "if cached_response is not None": a hit skips the generators
IsCacheHit(cached_response) == cached_response.some

\* lines 306-320 and 408-438: dispatch on the mode; the tutor handler first
\* looks the prompt up in the cache
Dispatch ==
    /\ pc = "dispatch"
    /\ IF loc.current_mode = "TUTOR"
       THEN LET cached_response ==
                    IF config.cache THEN cache_get(req.prompt, cache_context, "TUTOR")
                    ELSE NoText
            IN  /\ log' = log \o (IF config.cache THEN <<"cache.get">> ELSE <<>>)
                /\ IF IsCacheHit(cached_response)
                   THEN /\ loc' = [loc EXCEPT
                                !.cached_response = cached_response,
                                !.message = cached_response,
                                !.response =
                                    TutorResponse(cached_response.val, cached_response)]
                        /\ pc' = "response_trace"
                   ELSE /\ loc' = [loc EXCEPT !.cached_response = cached_response]
                        /\ pc' = "tutor_generate"
       ELSE /\ loc' = [loc EXCEPT !.response = PlaceholderResponse(loc.current_mode)]
            /\ log' = log
            /\ pc' = "response_trace"
    /\ UNCHANGED <<config, sessions, sequences, traces, risks, cacheStore, req, nreq, faults, start, prev, report>>

\* the except branch of the generator chosen at lines 441-450
Fallback(response_type) ==
    IF response_type = "socratic_questioning" THEN SocraticFallback
    ELSE IF response_type = "guided_hints" THEN GuidedHintsFallback
    ELSE ConceptualFallback

\* lines 472-575: what a generator returns when llm.generate answers with
\* content, and when it raises
GeneratedMessage(response_type, llm_ok, content) ==
    IF llm_ok THEN strip(content) ELSE Fallback(response_type)

\* lines 440-450: cache miss, one call of llm.generate
TutorGenerate ==
    /\ pc = "tutor_generate"
    /\ \E llm_ok \in BOOLEAN, content \in LLMContents :
          loc' = [loc EXCEPT
                    !.message = Some(GeneratedMessage(loc.response_type, llm_ok, content)),
                    !.llm_failed = ~llm_ok]
    /\ log' = Append(log, "llm.generate")
    /\ pc' = "tutor_cache_set"
    /\ UNCHANGED <<config, sessions, sequences, traces, risks, cacheStore, req, nreq, faults, start, prev, report>>

\* a variant that keeps the canned text of a failed generation out of the cache
StoresUnlessFailed == config.cache /\ ~loc.llm_failed

\* line 453, "if self.cache is not None": whatever the generator returned is
\* stored
StoresGenerated == config.cache

\* lines 452-470: store the new message, build the response
TutorCacheSet ==
    /\ pc = "tutor_cache_set"
    /\ cacheStore' = IF StoresGenerated
                     THEN cache_set(req.prompt, loc.message.val, cache_context, "TUTOR")
                     ELSE cacheStore
    /\ log' = log \o (IF StoresGenerated THEN <<"cache.set">> ELSE <<>>)
    /\ loc' = [loc EXCEPT !.response = TutorResponse(loc.message.val, loc.cached_response)]
    /\ pc' = "response_trace"
    /\ UNCHANGED <<config, sessions, sequences, traces, risks, req, nreq, faults, start, prev, report>>

----------------------------------------------------------------------------
(* Response trace, risk analysis and metrics, lines 322-352 *)

\* lines 322-333
ResponseTrace ==
    /\ pc = "response_trace"
    /\ LET response_trace ==
               _create_trace("response", "ai_response", loc.response.text,
                             loc.current_mode)
       IN  \E create_ok \in CallOutcomes :
              /\ traces' = TracesAfterPersist(response_trace, create_ok)
              /\ log' = log \o CallsOfPersistTrace(response_trace, create_ok)
              /\ Fault(config.trace_repo /\ ~create_ok)
              /\ IF PersistTraceOutcome(create_ok) = "ok"
                 THEN /\ loc' = [loc EXCEPT !.response_trace_id = response_trace.id]
                      /\ pc' = "analyze"
                 ELSE Raise(PersistTraceOutcome(create_ok))
    /\ UNCHANGED <<config, sessions, sequences, risks, cacheStore, req, nreq, start, prev, report>>

\* a trace as the rules of _analyze_risks_async read it: ai_involvement in
\* tenths, the stripped length of decision_justification (or None) and the
\* number of alternatives_considered
TraceView(ai_involvement, justification, alternatives) ==
    [ai_involvement |-> ai_involvement, decision_justification |-> justification,
     alternatives_considered |-> alternatives]

\* the traces process_interaction builds carry none of these fields
PipelineTraceView == TraceView(DefaultAiInvolvement, NoText, 0)

\* a trace as _analyze_risks_async receives it: its id and the fields it reads
TraceOf(id, view) ==
    [id |-> id, ai_involvement |-> view.ai_involvement,
     decision_justification |-> view.decision_justification,
     alternatives_considered |-> view.alternatives_considered]

\* _create_risk, lines 733-759: the Risk object, persisted nowhere
_create_risk(risk_type, risk_level, dimension, trace_ids) ==
    [risk_type |-> risk_type, risk_level |-> risk_level, dimension |-> dimension,
     trace_ids |-> trace_ids]

\* lines 943-947
has_justification(input_trace) ==
    /\ input_trace.decision_justification.some
    /\ Len(strip(input_trace.decision_justification.val)) > 20

\* lines 888-918, 920-941, 943-969 and 971-996: what each rule appends to
\* detected_risks
\* a variant of RC1 that fires whatever the classification says
RC1Unconditional(input_trace, response_trace, classification) ==
    <<_create_risk("cognitive_delegation", "high", "cognitive",
                   <<input_trace.id, response_trace.id>>)>>

RC1(input_trace, response_trace, classification) ==
    IF classification.is_delegation
    THEN <<_create_risk("cognitive_delegation", "high", "cognitive",
                        <<input_trace.id, response_trace.id>>)>>
    ELSE <<>>

RC2(input_trace, response_trace, classification) ==
    IF input_trace.ai_involvement > 7
    THEN <<_create_risk("ai_dependency", "medium", "cognitive", <<input_trace.id>>)>>
    ELSE <<>>

RC3(input_trace, response_trace, classification) ==
    IF ~has_justification(input_trace) /\ ~classification.is_question
    THEN <<_create_risk("lack_justification", "low", "cognitive", <<input_trace.id>>)>>
    ELSE <<>>

REp1(input_trace, response_trace, classification) ==
    IF response_trace.alternatives_considered = 0 /\ input_trace.ai_involvement > 5
    THEN <<_create_risk("uncritical_acceptance", "medium", "epistemic",
                        <<input_trace.id, response_trace.id>>)>>
    ELSE <<>>

\* a variant that stops at the first rule that fires
risk_rules_first_match(input_trace, response_trace, classification) ==
    IF RC1(input_trace, response_trace, classification) # <<>>
    THEN RC1(input_trace, response_trace, classification)
    ELSE IF RC2(input_trace, response_trace, classification) # <<>>
    THEN RC2(input_trace, response_trace, classification)
    ELSE IF RC3(input_trace, response_trace, classification) # <<>>
    THEN RC3(input_trace, response_trace, classification)
    ELSE REp1(input_trace, response_trace, classification)

\* lines 886-996: the list detected_risks after the four rules
risk_rules(input_trace, response_trace, classification) ==
    RC1(input_trace, response_trace, classification)
    \o RC2(input_trace, response_trace, classification)
    \o RC3(input_trace, response_trace, classification)
    \o REp1(input_trace, response_trace, classification)

\* the risk types of detected_risks, in order
detected_risks(input_trace, response_trace, classification) ==
    LET found == risk_rules(input_trace, response_trace, classification)
    IN  [i \in 1..Len(found) |-> found[i].risk_type]

\* a variant that writes every detected risk to the risks table
RisksAfterAnalysisPersisting(detected) == risks \o detected

\* the rows _analyze_risks_async adds to the risks table: each risk is built
\* by _create_risk (lines 733-759), which persists nothing, and the list is
\* only logged (lines 998-1016)
RisksAfterAnalysis(detected) == risks

\* lines 335-336 and 843-1016; analyzed is the pair of trace ids the call
\* receives and logs at lines 869-879
AnalyzeRisks ==
    /\ pc = "analyze"
    /\ LET input_trace == TraceOf(loc.input_trace_id, PipelineTraceView)
           response_trace == TraceOf(loc.response_trace_id, PipelineTraceView)
           detected ==
               IF config.risk_repo
               THEN detected_risks(input_trace, response_trace, loc.classification)
               ELSE <<>>
       IN  /\ loc' = [loc EXCEPT
                     !.analyzed = <<input_trace.id, response_trace.id>>,
                     !.detected_risks = detected,
                     !.analysis = IF config.risk_repo
                                  THEN risk_rules(input_trace, response_trace,
                                                  loc.classification)
                                  ELSE <<>>]
           /\ risks' = RisksAfterAnalysis(detected)
    /\ log' = Append(log, "_analyze_risks_async")
    /\ pc' = "metrics"
    /\ UNCHANGED <<config, sessions, sequences, traces, cacheStore, req, nreq, faults, start, prev, report>>

\* lines 338-352: record_interaction and record_cognitive_state are called
\* outside any try block, then the response is returned
Metrics ==
    /\ pc = "metrics"
    /\ LET calls == IF ~config.metrics THEN <<>>
                    ELSE <<"metrics.record_interaction">>
                         \o (IF loc.classification.cognitive_state # None
                             THEN <<"metrics.record_cognitive_state">> ELSE <<>>)
       IN  \E failing \in FailingCall(calls) :
              /\ log' = log \o CallsUntilFailure(calls, failing)
              /\ Fault(failing # 0)
              /\ IF failing = 0
                 THEN /\ pc' = "returned"
                      /\ loc' = loc
                 ELSE Raise("metrics")
    /\ UNCHANGED <<config, sessions, sequences, traces, risks, cacheStore, req, nreq, start, prev, report>>

----------------------------------------------------------------------------

Next ==
    \/ CreateSession
    \/ Validate
    \/ Lookup
    \/ Classify
    \/ InputTrace
    \/ BlockedResponse
    \/ PersistBlockRisk
    \/ BlockMetrics
    \/ Strategy
    \/ Dispatch
    \/ TutorGenerate
    \/ TutorCacheSet
    \/ ResponseTrace
    \/ AnalyzeRisks
    \/ Metrics

Spec == Init /\ [][Next]_vars

----------------------------------------------------------------------------
(* Vocabulary of the properties *)

Returned == pc = "returned"
Raised == pc = "raised"

\* the current request passed validation and its session was found
OnExistingSession == loc.current_mode # None

\* the request has been classified as a delegation
IsDelegationRequest == OnExistingSession /\ loc.classification.is_delegation

LLMCalls == Count(log, "llm.generate")

\* the rows the current request added to the risks table
RisksWritten == SubSeq(risks, Len(start.risks) + 1, Len(risks))

IsDelegationRisk(r) ==
    /\ r.risk_type = "cognitive_delegation"
    /\ r.risk_level = "high"
    /\ r.session_id = req.session_id

----------------------------------------------------------------------------
(* C1 *)

\* C1 as stated: every request classified as a delegation ends by returning
\* blocked = true with a non-empty block_reason, having persisted exactly one
\* cognitive_delegation/HIGH risk for its session and made no call to the
\* language model.
C1_Original ==
    (IsDelegationRequest /\ (Returned \/ Raised)) =>
        /\ Returned
        /\ loc.response.blocked
        /\ loc.response.block_reason # <<>>
        /\ Len(RisksWritten) = 1
        /\ IsDelegationRisk(RisksWritten[1])
        /\ LLMCalls = 0

\* C1 (amended): a request classified as a delegation never calls the language
\* model and never persists anything but cognitive_delegation/HIGH risks of
\* its session, at most one; whenever it returns, the response has
\* blocked = true and a non-empty block_reason and (with a risk repository
\* injected) exactly one such risk has been persisted; when the risk write
\* fails the call raises and no risk has been persisted.
C1_DelegationIsBlocked ==
    IsDelegationRequest =>
        /\ LLMCalls = 0
        /\ Len(RisksWritten) <= 1
        /\ \A i \in 1..Len(RisksWritten) : IsDelegationRisk(RisksWritten[i])
        /\ Returned =>
              /\ loc.response.blocked
              /\ loc.response.block_reason # <<>>
              /\ config.risk_repo => Len(RisksWritten) = 1
        /\ (Raised /\ loc.raised_by = "risk_write") => Len(RisksWritten) = 0

\* a delegation request has returned its blocked response after writing the risk
C1_Witness ==
    /\ IsDelegationRequest
    /\ Returned
    /\ loc.response.blocked
    /\ Len(RisksWritten) = 1

----------------------------------------------------------------------------
(* C2 *)

----------------------------------------------------------------------------
(* C3 *)

\* the call that just returned had the same prompt, mode, strategy and
\* classification as the call before it, which returned too
RepeatedCall ==
    /\ Returned
    /\ prev.outcome = "returned"
    /\ prev.prompt = req.prompt
    /\ prev.mode = loc.current_mode
    /\ prev.response_type = loc.response_type
    /\ prev.cognitive_state = loc.classification.cognitive_state
    /\ prev.response.blocked = loc.response.blocked

\* C3 as stated: for every prompt, mode and strategy, of two sequential calls
\* with identical inputs the first has from_cache = false and the second
\* from_cache = true with the text of the first, and the language model is
\* called at most once over the two.
C3_Original ==
    RepeatedCall =>
        /\ prev.response.from_cache = "false"
        /\ loc.response.from_cache = "true"
        /\ loc.response.text = prev.response.text
        /\ prev.llm_calls + LLMCalls <= 1

\* C3 (amended): in TUTOR mode with a cache configured, of two sequential
\* calls that both return a non-blocked response for the same prompt,
\* response_type and cognitive_state, the second has from_cache = true and the
\* text of the first and calls no language model, the first calls it at most
\* once, and the first has from_cache = false when it started on an empty
\* cache.
C3_RepeatIsServedFromCache ==
    (RepeatedCall /\ loc.current_mode = "TUTOR" /\ config.cache
        /\ ~loc.response.blocked) =>
        /\ loc.response.from_cache = "true"
        /\ loc.response.text = prev.response.text
        /\ LLMCalls = 0
        /\ prev.llm_calls <= 1
        /\ (nreq = 2 => prev.response.from_cache = "false")

\* the second of two identical tutor calls has returned the cached text
C3_Witness ==
    /\ RepeatedCall
    /\ loc.current_mode = "TUTOR"
    /\ config.cache
    /\ prev.response.from_cache = "false"
    /\ prev.llm_calls = 1
    /\ loc.response.from_cache = "true"

----------------------------------------------------------------------------
(* C4 *)

\* the tutor handler has built its response
TutorResponded == loc.response.mode = "tutor"

\* C4: in tutor mode a request whose cache lookup returned a value calls no
\* language model and writes nothing to the cache, and its response carries
\* the cached value with from_cache = true; a request whose lookup missed
\* (or that has no cache) has from_cache = false.
C4_CacheHitShortCircuits ==
    /\ (loc.current_mode = "TUTOR" /\ loc.cached_response.some) =>
          /\ LLMCalls = 0
          /\ Count(log, "cache.set") = 0
          /\ cacheStore = start.cacheStore
    /\ TutorResponded =>
          IF loc.cached_response.some
          THEN /\ loc.response.text = loc.cached_response.val
               /\ loc.response.from_cache = "true"
          ELSE loc.response.from_cache = "false"

\* a tutor request answered from the cache has returned
C4_Witness ==
    /\ Returned
    /\ TutorResponded
    /\ loc.cached_response.some
    /\ loc.response.from_cache = "true"

----------------------------------------------------------------------------
(* C5 *)

\* the call has ended, one way or the other
Ended == Returned \/ Raised

\* C5: in tutor mode on a cache miss, a request whose language model call
\* failed does not raise: it returns a non-blocked response whose text is the
\* canned text of the selected strategy, after the response trace was handed
\* to persistence and the risks were evaluated.
C5_LLMFailureFallsBack ==
    (loc.llm_failed /\ Ended) =>
        /\ Returned
        /\ ~loc.response.blocked
        /\ loc.response.text = Fallback(loc.response_type)
        /\ loc.response_trace_id = <<nreq, "response">>
        /\ Count(log, "_analyze_risks_async") = 1

----------------------------------------------------------------------------
(* C6 *)

\* C6: only a validation failure and a missing session reach the caller as
\* failures; a request that passed validation on an existing session returns
\* whatever its collaborators do.
C6_OnlyValidationAndSessionRaise ==
    Raised => loc.raised_by \in {"validation", "session"}

----------------------------------------------------------------------------
(* C7 *)

\* the call under way was made with an empty or over-long session_id, an
\* empty, too short or too long prompt, or a non-dict, non-serializable or
\* oversized context
InvalidRequest ==
    /\ pc # "idle"
    /\ \/ req.session_id = <<>>
       \/ Len(req.session_id) > SESSION_ID_MAX_LENGTH
       \/ req.prompt = <<>>
       \/ Len(strip(req.prompt)) < PROMPT_MIN_LENGTH
       \/ Len(strip(req.prompt)) > PROMPT_MAX_LENGTH
       \/ req.context.kind = "nondict"
       \/ /\ req.context.kind = "dict"
          /\ \/ \E i \in 1..Len(req.context.vals) : req.context.vals[i] = 0
             \/ json_dumps_size(req.context) > CONTEXT_MAX_SIZE_BYTES

\* the rows of the traces table written by the call under way
TracesWritten == {i \in 1..Len(traces) : traces[i].id[1] = nreq}

\* nothing was read or written by the call under way, but for the calls in
\* allowed
NoSideEffect(allowed) ==
    /\ Range(log) \subseteq allowed
    /\ TracesWritten = {}
    /\ risks = start.risks
    /\ cacheStore = start.cacheStore

\* C7: a call whose arguments fail validation raises before any side effect:
\* no session lookup, no classification, no trace or risk write, no cache
\* access and no language model call.
C7_InvalidInputHasNoEffect ==
    InvalidRequest =>
        /\ Raised
        /\ loc.raised_by = "validation"
        /\ NoSideEffect({})

\* a rejected call that follows one that wrote its traces
C7_Witness ==
    /\ InvalidRequest
    /\ Raised
    /\ traces # <<>>
    /\ prev.outcome = "returned"

----------------------------------------------------------------------------
(* C8 *)

\* the call under way passed validation and names a session that the
\* session repository does not hold, or there is no session repository
MissingSession ==
    /\ pc \notin {"idle", "lookup"}
    /\ ~InvalidRequest
    /\ \/ ~config.session_repo
       \/ \A n \in 1..Len(sessions) : SessionId(n) # req.session_id

\* C8: a call whose session is not found, or that has no session repository,
\* fails without attempting a side effect: nothing but the lookup itself is
\* called, no trace and no risk is written, the cache is left alone.
C8_MissingSessionHasNoEffect ==
    /\ MissingSession => (Raised /\ loc.raised_by = "session")
    /\ (Raised /\ loc.raised_by = "session") =>
          NoSideEffect({"session_repo.get_by_id"})

\* a lookup that found no row, after a call that wrote its traces
C8_Witness ==
    /\ MissingSession
    /\ Raised
    /\ log = <<"session_repo.get_by_id">>
    /\ traces # <<>>

----------------------------------------------------------------------------
(* C10 *)

\* the risk types of the rows written by the call under way
RiskTypesWritten == {RisksWritten[i].risk_type : i \in 1..Len(RisksWritten)}

\* C10: when a non-blocked request returns, the risks written for it are the
\* risks its risk analysis detected.
C10_DetectedRisksArePersisted ==
    (Returned /\ ~loc.response.blocked) =>
        RiskTypesWritten = Range(loc.detected_risks)

----------------------------------------------------------------------------
(* _validate_interaction_input on its own: every prompt of at most         *)
(* MaxPromptLen characters, every context of at most MaxEntries entries    *)

ValidationSessionIds == {SessionId(1), <<>>, OverlongSessionId}

ValidationPrompts == SeqsUpTo(Chars, MaxPromptLen)

ValidationContexts ==
    {NoContext, NonDictContext}
        \cup {DictContext(vals) : vals \in SeqsUpTo(0..MaxDigits, MaxEntries)}

InitValidation ==
    /\ config = AllInjected
    /\ sessions = <<>>
    /\ sequences = {}
    /\ traces = <<>>
    /\ risks = <<>>
    /\ cacheStore = {}
    /\ pc = "idle"
    /\ req \in [session_id : ValidationSessionIds, prompt : ValidationPrompts,
                context : ValidationContexts]
    /\ loc = NoLocals
    /\ log = <<>>
    /\ nreq = 0
    /\ faults = 0
    /\ start = [risks |-> <<>>, cacheStore |-> {}]
    /\ prev = NoPrev
    /\ report = NoReport

\* line 214 applied to the arguments drawn by InitValidation
ApplyValidation ==
    /\ pc = "idle"
    /\ IF _validate_interaction_input(req.session_id, req.prompt, req.context) = "ok"
       THEN /\ pc' = "lookup"
            /\ loc' = loc
       ELSE Raise("validation")
    /\ nreq' = nreq + 1
    /\ UNCHANGED <<config, sessions, sequences, traces, risks, cacheStore, req, log, faults, start, prev, report>>

SpecValidation == InitValidation /\ [][ApplyValidation]_vars

----------------------------------------------------------------------------
(* C9 *)

Accepted == pc = "lookup"
Rejected == pc = "raised" /\ loc.raised_by = "validation"

\* the arguments other than the prompt, and other than the context, pass
PromptAlone ==
    /\ _validate_session_id(req.session_id) = "ok"
    /\ _validate_context(req.context) = "ok"

ContextAlone ==
    /\ _validate_session_id(req.session_id) = "ok"
    /\ _validate_prompt(req.prompt) = "ok"

\* the context is a dict that json.dumps turns into size bytes
ContextOfSize(size) ==
    /\ req.context.kind = "dict"
    /\ json_serializable(req.context)
    /\ json_dumps_size(req.context) = size

\* the boundaries of the context and the kind of every rejection
ContextBoundaries ==
    /\ (ContextAlone /\ ContextOfSize(CONTEXT_MAX_SIZE_BYTES)) => Accepted
    /\ ContextOfSize(CONTEXT_MAX_SIZE_BYTES + 1) => Rejected
    /\ Accepted \/ Rejected

\* C9 as stated: a prompt of exactly the minimum length is accepted and one
\* character shorter is rejected; a context of exactly the byte ceiling is
\* accepted and one byte over is rejected; every rejection is a ValueError.
C9_Original ==
    pc # "idle" =>
        /\ (PromptAlone /\ Len(req.prompt) = PROMPT_MIN_LENGTH) => Accepted
        /\ Len(req.prompt) = PROMPT_MIN_LENGTH - 1 => Rejected
        /\ ContextBoundaries

\* C9 (amended): a prompt whose length after strip() is exactly the minimum
\* is accepted and one whose stripped length is one less is rejected; a
\* context whose serialized size is exactly the byte ceiling is accepted and
\* one byte over is rejected; every rejection is a ValueError.
C9_ValidationBoundaries ==
    pc # "idle" =>
        /\ (PromptAlone /\ Len(strip(req.prompt)) = PROMPT_MIN_LENGTH) => Accepted
        /\ Len(strip(req.prompt)) = PROMPT_MIN_LENGTH - 1 => Rejected
        /\ ContextBoundaries

\* accepted: a padded prompt of stripped length PROMPT_MIN_LENGTH with a
\* context of exactly CONTEXT_MAX_SIZE_BYTES bytes
C9_Witness ==
    /\ Accepted
    /\ Len(strip(req.prompt)) = PROMPT_MIN_LENGTH
    /\ Len(req.prompt) > PROMPT_MIN_LENGTH
    /\ ContextOfSize(CONTEXT_MAX_SIZE_BYTES)

----------------------------------------------------------------------------
(* The rules of _analyze_risks_async (lines 886-996) on their own: every   *)
(* ai_involvement in tenths, every decision_justification of at most       *)
(* MaxJustificationLen characters padded with blanks                       *)

RECURSIVE Repeat(_, _)
Repeat(c, n) == IF n = 0 THEN <<>> ELSE <<c>> \o Repeat(c, n - 1)

\* a text of n non-blank characters between before and after blanks
Padded(before, n, after) == Repeat(" ", before) \o Repeat("a", n) \o Repeat(" ", after)

\* ai_involvement is a float in [0, 1]; the model counts tenths
InvolvementLevels == 0..10

Justifications ==
    {NoText} \cup {Some(Padded(before, n, after)) :
                      before \in 0..MaxPadding, n \in 0..MaxJustificationLen,
                      after \in 0..MaxPadding}

InputTraces ==
    {TraceOf(<<1, "input">>, TraceView(a, j, 0)) :
        a \in InvolvementLevels, j \in Justifications}

ResponseTraces ==
    {TraceOf(<<1, "response">>, TraceView(a, NoText, n)) :
        a \in {0, 10}, n \in 0..MaxAlternatives}

InitRules ==
    /\ config = AllInjected
    /\ sessions = <<>>
    /\ sequences = {}
    /\ traces = <<>>
    /\ risks = <<>>
    /\ cacheStore = {}
    /\ pc = "idle"
    /\ req \in [input_trace : InputTraces, response_trace : ResponseTraces,
                classification : Classification]
    /\ loc = NoLocals
    /\ log = <<>>
    /\ nreq = 0
    /\ faults = 0
    /\ start = [risks |-> <<>>, cacheStore |-> {}]
    /\ prev = NoPrev
    /\ report = NoReport

\* lines 886-996 applied to the arguments drawn by InitRules
ApplyRiskRules ==
    /\ pc = "idle"
    /\ pc' = "analyzed"
    /\ loc' = [loc EXCEPT
                 !.analysis = risk_rules(req.input_trace, req.response_trace,
                                         req.classification),
                 !.detected_risks = detected_risks(req.input_trace, req.response_trace,
                                                   req.classification)]
    /\ UNCHANGED <<config, sessions, sequences, traces, risks, cacheStore, req, log, nreq, faults, start, prev, report>>

SpecRules == InitRules /\ [][ApplyRiskRules]_vars

----------------------------------------------------------------------------
(* C11 *)

\* the entries of the analysis that have the risk type
Found(risk_type) ==
    {i \in 1..Len(loc.analysis) : loc.analysis[i].risk_type = risk_type}

\* the rule with the condition yields exactly one risk of the type, with the
\* level and the dimension, when the condition holds, and none otherwise
Yields(condition, risk_type, risk_level, dimension) ==
    IF condition
    THEN /\ Cardinality(Found(risk_type)) = 1
         /\ \A i \in Found(risk_type) :
               /\ loc.analysis[i].risk_level = risk_level
               /\ loc.analysis[i].dimension = dimension
    ELSE Found(risk_type) = {}

----------------------------------------------------------------------------
(* C12 *)

\* C12: R3 yields one risk (low, cognitive, lack_justification) exactly when
\* is_question is false and decision_justification is absent or shorter than
\* 20 characters; a justification of 20 characters or more yields none.
C12_LackOfJustification ==
    pc = "analyzed" =>
        Yields(/\ ~req.classification.is_question
               /\ \/ ~req.input_trace.decision_justification.some
                  \/ Len(req.input_trace.decision_justification.val) < 20,
               "lack_justification", "low", "cognitive")

----------------------------------------------------------------------------
(* TutorCognitivoAgent._determine_adaptive_help_level (agents/tutor.py)    *)

\* HelpLevel, lowest first
HelpLevels == <<"minimo", "bajo", "medio", "alto">>

\* a trace of the history: whether its metadata["response_metadata"] has the
\* key "hints_provided", and its ai_involvement in tenths
HistoryTraces == [hint : BOOLEAN, ai_involvement : {0, 10}]

\* _count_previous_hints, lines 330-335
RECURSIVE _count_previous_hints(_)
_count_previous_hints(student_history) ==
    IF student_history = <<>> THEN 0
    ELSE (IF Head(student_history).hint THEN 1 ELSE 0)
         + _count_previous_hints(Tail(student_history))

\* sum(t.ai_involvement for t in student_history)
RECURSIVE SumInvolvement(_)
SumInvolvement(student_history) ==
    IF student_history = <<>> THEN 0
    ELSE Head(student_history).ai_involvement + SumInvolvement(Tail(student_history))

\* a variant that needs one more hint to demote
MoreThanSixHints(hints_received) == hints_received > 6

\* line 309, "if hints_received > 5"
ManyHints(hints_received) == hints_received > 5

\* line 319, "if avg_ai_involvement > 0.6", with the average in tenths:
\* sum / len > 6 iff sum > 6 * len
HighInvolvement(student_history) ==
    SumInvolvement(student_history) > 6 * Len(student_history)

\* lines 310-313 and 320-323: alto becomes medio, medio becomes bajo; any
\* other level falls through
Demoted(strategy_level) ==
    IF strategy_level = "alto" THEN Some("medio")
    ELSE IF strategy_level = "medio" THEN Some("bajo")
    ELSE NoText

\* lines 291-328; the strategy is a dict that may lack the key help_level
_determine_adaptive_help_level(student_history, strategy) ==
    LET strategy_level ==
            IF strategy.help_level = None THEN "medio" ELSE strategy.help_level
    IN  IF student_history = <<>> THEN strategy_level
        ELSE IF ManyHints(_count_previous_hints(student_history))
                /\ Demoted(strategy_level).some
        THEN Demoted(strategy_level).val
        ELSE IF HighInvolvement(student_history) /\ Demoted(strategy_level).some
        THEN Demoted(strategy_level).val
        ELSE strategy_level

InitHelpLevel ==
    /\ config = AllInjected
    /\ sessions = <<>>
    /\ sequences = {}
    /\ traces = <<>>
    /\ risks = <<>>
    /\ cacheStore = {}
    /\ pc = "idle"
    /\ req \in [student_history : SeqsUpTo(HistoryTraces, MaxHistory),
                strategy : [help_level : Range(HelpLevels) \cup {None}]]
    /\ loc = NoLocals
    /\ log = <<>>
    /\ nreq = 0
    /\ faults = 0
    /\ start = [risks |-> <<>>, cacheStore |-> {}]
    /\ prev = NoPrev
    /\ report = NoReport

\* line 247: the level chosen for the arguments drawn by InitHelpLevel
ApplyHelpLevel ==
    /\ pc = "idle"
    /\ pc' = "leveled"
    /\ loc' = [help_level |->
                  _determine_adaptive_help_level(req.student_history, req.strategy)]
    /\ UNCHANGED <<config, sessions, sequences, traces, risks, cacheStore, req, log, nreq, faults, start, prev, report>>

SpecHelpLevel == InitHelpLevel /\ [][ApplyHelpLevel]_vars

----------------------------------------------------------------------------
(* C13 *)

\* the position of a level in HelpLevels
Rank(level) == CHOOSE i \in 1..Len(HelpLevels) : HelpLevels[i] = level

\* the base level of the call: strategy["help_level"], medio when absent
BaseLevel == IF req.strategy.help_level = None THEN "medio" ELSE req.strategy.help_level

\* the hints in the history of the call, and whether its average
\* ai_involvement is above 0.6
PriorHints ==
    Cardinality({i \in 1..Len(req.student_history) : req.student_history[i].hint})

AboveSixTenths ==
    /\ req.student_history # <<>>
    /\ Cardinality({i \in 1..Len(req.student_history) :
                       req.student_history[i].ai_involvement = 10}) * 10
           > 6 * Len(req.student_history)

\* C13: the selected level is never higher than the base level; with more
\* than 5 prior hints and base alto it is not alto; with average
\* ai_involvement above 0.6 and base medio it is bajo or lower.
C13_HelpLevelNeverRises ==
    pc = "leveled" =>
        /\ Rank(loc.help_level) <= Rank(BaseLevel)
        /\ (PriorHints > 5 /\ BaseLevel = "alto") => loc.help_level # "alto"
        /\ (AboveSixTenths /\ BaseLevel = "medio") => Rank(loc.help_level) <= Rank("bajo")

\* six hints with low ai_involvement have demoted alto to medio
C13_Witness ==
    /\ pc = "leveled"
    /\ PriorHints = 6
    /\ ~AboveSixTenths
    /\ BaseLevel = "alto"
    /\ loc.help_level = "medio"

----------------------------------------------------------------------------
(* C14 *)

\* the level steps below it, floored at minimo
Lowered(level, steps) ==
    HelpLevels[IF Rank(level) - steps < 1 THEN 1 ELSE Rank(level) - steps]

\* C14: more than 5 prior hints lowers the base level by one step, average
\* ai_involvement over 0.6 by one more, so both lower it by two steps and one
\* of them by exactly one step, floored at minimo.
C14_DemotionsCombine ==
    pc = "leveled" =>
        loc.help_level =
            Lowered(BaseLevel, (IF PriorHints > 5 THEN 1 ELSE 0)
                               + (IF AboveSixTenths THEN 1 ELSE 0))

----------------------------------------------------------------------------
(* RiskReport.add_risk (models/risk.py)                                    *)

\* RiskLevel
RiskLevels == {"critical", "high", "medium", "low", "info"}

\* some members of RiskType
ReportedRiskTypes == {"cognitive_delegation", "lack_justification"}

\* dict.get(key, 0) on risk_distribution, a list of <<key, count>> pairs
DistributionGet(risk_distribution, key) ==
    IF \E i \in 1..Len(risk_distribution) : risk_distribution[i][1] = key
    THEN risk_distribution[CHOOSE i \in 1..Len(risk_distribution) :
                               risk_distribution[i][1] = key][2]
    ELSE 0

\* risk_distribution[key] = count
DistributionSet(risk_distribution, key, count) ==
    IF \E i \in 1..Len(risk_distribution) : risk_distribution[i][1] = key
    THEN [i \in 1..Len(risk_distribution) |->
             IF risk_distribution[i][1] = key THEN <<key, count>>
             ELSE risk_distribution[i]]
    ELSE Append(risk_distribution, <<key, count>>)

\* lines 151-170
add_risk(self, risk) ==
    [total_risks |-> self.total_risks + 1,
     critical_risks |-> self.critical_risks
                        + (IF risk.risk_level = "critical" THEN 1 ELSE 0),
     high_risks |-> self.high_risks + (IF risk.risk_level = "high" THEN 1 ELSE 0),
     medium_risks |-> self.medium_risks + (IF risk.risk_level = "medium" THEN 1 ELSE 0),
     low_risks |-> self.low_risks + (IF risk.risk_level = "low" THEN 1 ELSE 0),
     risk_distribution |->
         DistributionSet(self.risk_distribution, risk.risk_type,
                         DistributionGet(self.risk_distribution, risk.risk_type) + 1),
     risks |-> Append(self.risks, risk)]

InitRiskReport == Init /\ config = AllInjected

AddRisk ==
    /\ Len(report.risks) < MaxReportRisks
    /\ \E risk \in [risk_level : RiskLevels, risk_type : ReportedRiskTypes] :
          report' = add_risk(report, risk)
    /\ UNCHANGED <<config, sessions, sequences, traces, risks, cacheStore, pc, req, loc, log, nreq, faults, start, prev>>

SpecRiskReport == InitRiskReport /\ [][AddRisk]_vars

----------------------------------------------------------------------------
(* C15 *)

\* C15: after any sequence of add_risk calls with risks of any level,
\* total_risks = critical_risks + high_risks + medium_risks + low_risks.
C15_ReportCounts ==
    report.total_risks =
        report.critical_risks + report.high_risks + report.medium_risks
        + report.low_risks

----------------------------------------------------------------------------
(* C16 *)

\* the stage of process_interaction a call of the log belongs to, numbered as
\* the stages are listed; 0 for the calls only the governance block makes
StageOf(call) ==
    CASE call = "session_repo.get_by_id" -> 2
      [] call = "classify_prompt" -> 3
      [] call = "trace_repo.create:student_prompt" -> 4
      [] call \in {"trace_repo.get_by_student", "generate_strategy"} -> 5
      [] call \in {"cache.get", "llm.generate", "cache.set"} -> 6
      [] call = "trace_repo.create:ai_response" -> 7
      [] call = "_analyze_risks_async" -> 8
      [] call \in {"metrics.record_interaction", "metrics.record_cognitive_state"} -> 9
      [] OTHER -> 0

\* the calls of the request so far without record_trace_creation, which
\* _persist_trace makes as part of a trace write
StageCalls == SelectSeq(log, LAMBDA call : call # "metrics.record_trace_creation")

Called(call) == \E i \in 1..Len(log) : log[i] = call

Before(first, second) ==
    \A j \in 1..Len(log) :
        log[j] = second => \E i \in 1..(j - 1) : log[i] = first

NotBlocked == ~loc.should_block

----------------------------------------------------------------------------
(* C17 *)

\* the rows the current request has added to a table, oldest first
WrittenBy(table) == SelectSeq(table, LAMBDA row : row.id[1] = nreq)

InterventionTraces ==
    SelectSeq(WrittenBy(traces), LAMBDA row : row.interaction_type = "tutor_intervention")

\* the trace writes of a blocked request, each of them optional
BlockedTraceWrites ==
    {<<>>, <<"student_prompt">>, <<"tutor_intervention">>,
     <<"student_prompt", "tutor_intervention">>}

\* C17: Blocked is a terminal state: in a blocked request no student-history
\* read, no strategy selection, no mode handler, no cache access, no
\* ai_response trace and no risk rule evaluation happens; the only writes are
\* the input trace (student_prompt), then one tutor_intervention trace by agent
\* GOV-IA, then one HIGH delegation risk, in that order, before the response is
\* returned.
C17_BlockedIsTerminal ==
    loc.should_block =>
        /\ \A call \in {"trace_repo.get_by_student", "generate_strategy", "cache.get",
                        "cache.set", "llm.generate", "trace_repo.create:ai_response",
                        "_analyze_risks_async"} : ~Called(call)
        /\ cacheStore = start.cacheStore
        /\ loc.detected_risks = <<>> /\ loc.analyzed = <<>>
        /\ [i \in 1..Len(WrittenBy(traces)) |-> WrittenBy(traces)[i].interaction_type]
               \in BlockedTraceWrites
        /\ \A i \in 1..Len(InterventionTraces) : InterventionTraces[i].agent_id = "GOV-IA"
        /\ Len(RisksWritten) <= 1
        /\ \A i \in 1..Len(RisksWritten) :
              /\ RisksWritten[i].risk_type = "cognitive_delegation"
              /\ RisksWritten[i].risk_level = "high"
        /\ Before("trace_repo.create:student_prompt", "trace_repo.create:tutor_intervention")
        /\ config.trace_repo => Before("trace_repo.create:tutor_intervention", "risk_repo.create")
        /\ Returned =>
              /\ config.risk_repo => Len(RisksWritten) = 1
              /\ config.trace_repo /\ faults = 0 => Len(WrittenBy(traces)) = 2
              /\ loc.response.blocked

C17_Witness ==
    /\ Returned /\ loc.should_block
    /\ Len(WrittenBy(traces)) = 2 /\ Len(RisksWritten) = 1
    /\ WrittenBy(traces)[2].agent_id = "GOV-IA"
    /\ RisksWritten[1].risk_level = "high"

----------------------------------------------------------------------------
(* C18 *)

\* the response of a call that does not reach the tutor handler, from its
\* arguments, the classification of the prompt and the session row
ResponseOutsideTutor ==
    IF loc.should_block
    THEN _generate_blocked_response(loc.block_reason, loc.classification)
    ELSE PlaceholderResponse(get_by_id(req.session_id).mode)

----------------------------------------------------------------------------
(* C19 *)

\* C19: metrics emission is best-effort: a failure of record_interaction,
\* record_governance_block, record_cognitive_state, record_trace_creation or
\* record_risk_detection is swallowed, and process_interaction returns the
\* response it would return had the call succeeded; no request ends with the
\* exception of a metrics call.
C19_MetricsFailuresAreSwallowed ==
    loc.raised_by # "metrics"

----------------------------------------------------------------------------
(* C20 *)

\* the trace repository was asked to write a trace of this type for the current
\* request and the table has no such row: the write failed
WriteFailed(interaction_type) ==
    /\ Called("trace_repo.create:" \o interaction_type)
    /\ \A i \in 1..Len(WrittenBy(traces)) :
          WrittenBy(traces)[i].interaction_type # interaction_type

TraceWriteFailed ==
    \E interaction_type \in {"student_prompt", "tutor_intervention", "ai_response"} :
        WriteFailed(interaction_type)

\* the response of a returned call, from what its stages computed
ResponseOfStages ==
    IF loc.should_block
    THEN _generate_blocked_response(loc.block_reason, loc.classification)
    ELSE IF loc.current_mode = "TUTOR"
    THEN TutorResponse(loc.message.val, loc.cached_response)
    ELSE PlaceholderResponse(loc.current_mode)

----------------------------------------------------------------------------
(* C21 *)

\* the current request was classified and is not a delegation
NotDelegation == Called("classify_prompt") /\ ~loc.classification.is_delegation

\* C21: for every request that is not blocked (is_delegation = false) no risk
\* of type cognitive_delegation is produced or persisted: rule RC1 never fires
\* on the non-blocked path, and every persisted cognitive_delegation risk was
\* written by the governance-block branch.
C21_DelegationRiskOnlyFromBlock ==
    /\ NotDelegation =>
          /\ NotBlocked
          /\ \A i \in 1..Len(loc.detected_risks) :
                loc.detected_risks[i] # "cognitive_delegation"
          /\ \A i \in 1..Len(RisksWritten) :
                RisksWritten[i].risk_type # "cognitive_delegation"
    /\ (NotBlocked /\ Called("_analyze_risks_async")) =>
          \A i \in 1..Len(loc.analysis) :
              loc.analysis[i].risk_type # "cognitive_delegation"
    /\ \A i \in 1..Len(risks) :
          risks[i].risk_type = "cognitive_delegation" => risks[i].id[2] = "block"

\* a request that is not a delegation has returned after the rules found some
\* other risk, over a table holding the delegation risk of an earlier block
C21_Witness ==
    /\ Returned /\ NotDelegation
    /\ config.risk_repo
    /\ loc.detected_risks # <<>>
    /\ \E i \in 1..Len(risks) : risks[i].risk_type = "cognitive_delegation"

----------------------------------------------------------------------------
(* _analyze_risks_async called twice with the same arguments, on a gateway  *)
(* with or without a risk repository                                        *)

InitIdempotence ==
    /\ config \in {AllInjected, [AllInjected EXCEPT !.risk_repo = FALSE]}
    /\ sessions = <<>>
    /\ sequences = {}
    /\ traces = <<>>
    /\ risks = <<>>
    /\ cacheStore = {}
    /\ pc = "idle"
    /\ req \in [input_trace : InputTraces, response_trace : ResponseTraces,
                classification : Classification]
    /\ loc = NoLocals
    /\ log = <<>>
    /\ nreq = 0
    /\ faults = 0
    /\ start = [risks |-> <<>>, cacheStore |-> {}]
    /\ prev = NoPrev
    /\ report = NoReport

\* lines 843-1016 on the arguments drawn by InitIdempotence: the early return
\* without a risk repository (lines 881-884), the rules, the summary
_analyze_risks_async(after) ==
    LET detected ==
            IF config.risk_repo
            THEN detected_risks(req.input_trace, req.response_trace, req.classification)
            ELSE <<>>
    IN  /\ loc' = [loc EXCEPT
                     !.analyzed = <<req.input_trace.id, req.response_trace.id>>,
                     !.detected_risks = detected,
                     !.analysis = IF config.risk_repo
                                  THEN risk_rules(req.input_trace, req.response_trace,
                                                  req.classification)
                                  ELSE <<>>]
        /\ risks' = RisksAfterAnalysis(detected)
        /\ log' = Append(log, "_analyze_risks_async")
        /\ pc' = after

FirstAnalysis ==
    /\ pc = "idle"
    /\ _analyze_risks_async("analyzed")
    /\ UNCHANGED <<config, sessions, sequences, traces, cacheStore, req, nreq, faults, start, prev, report>>

\* the caller keeps the result of the first call and calls again
SecondAnalysis ==
    /\ pc = "analyzed"
    /\ _analyze_risks_async("analyzed_twice")
    /\ prev' = [NoPrev EXCEPT !.outcome = "analyzed", !.response = loc.detected_risks]
    /\ UNCHANGED <<config, sessions, sequences, traces, cacheStore, req, nreq, faults, start, report>>

SpecIdempotence == InitIdempotence /\ [][FirstAnalysis \/ SecondAnalysis]_vars

----------------------------------------------------------------------------
(* C22 *)

----------------------------------------------------------------------------
(* POST /evaluations/{session_id}/generate (api/routers/evaluations.py)    *)

\* the keys generate_process_evaluation reads from the parsed answer
EvaluationKeys ==
    {"planning", "execution", "debugging", "reflection", "autonomy",
     "autonomy_level", "metacognition_score", "delegation_ratio", "overall_feedback"}

\* answers of the model, as token lists: an object with the given keys
JsonObject(keys) == <<"{", keys, "}">>

ModelAnswers ==
    {<<"no", "json">>,                                   \* prose
     <<"{", EvaluationKeys>>,                            \* an object cut short
     <<"[", "]">>,                                       \* a JSON list
     JsonObject({}),                                     \* an empty object
     JsonObject(EvaluationKeys \ {"overall_feedback"}),  \* one key missing
     JsonObject(EvaluationKeys)}                         \* the object asked for

\* json.loads: the parsed value, or JSONDecodeError
json_loads(text) ==
    IF Len(text) = 3 /\ text[1] = "{" /\ text[3] = "}"
    THEN [error |-> None, kind |-> "dict", keys |-> text[2]]
    ELSE IF Len(text) = 2 /\ text[1] = "[" /\ text[2] = "]"
    THEN [error |-> None, kind |-> "list", keys |-> {}]
    ELSE [error |-> "JSONDecodeError", kind |-> None, keys |-> {}]

\* the providers the endpoint can be given are "ollama", OllamaProvider, whose
\* generate takes messages and returns an LLMResponse, and "text", a provider
\* with the interface the endpoint is written against, generate(prompt=...) -> str

\* llm_provider.generate(prompt=prompt, temperature=0.3, max_tokens=2000),
\* lines 180-184, against OllamaProvider.generate(self, messages, ...)
\* (ollama_provider.py lines 151-157): the required argument messages is
\* missing and the call raises TypeError
llm_generate(provider, answer) ==
    IF provider = "ollama"
    THEN [error |-> "TypeError", text |-> <<>>]
    ELSE [error |-> None, text |-> answer]

NoEvaluation == [kind |-> None, session_id |-> <<>>, student_id |-> None,
                 activity_id |-> None, interaction_count |-> 0]

\* _generate_fallback_evaluation, lines 247-287
_generate_fallback_evaluation(session_id, student_id, activity_id, interaction_count) ==
    [kind |-> "fallback", session_id |-> session_id, student_id |-> student_id,
     activity_id |-> activity_id, interaction_count |-> interaction_count]

\* the HTTP answer of the endpoint
HttpAnswer(status, success, data, message) ==
    [status |-> status, success |-> success, data |-> data, message |-> message]

\* TraceRepository.get_by_session
get_by_session(session_id) ==
    SelectSeq(traces, LAMBDA row : row.session_id = session_id)

StoredTrace(n) ==
    [id |-> <<n, "input">>, session_id |-> SessionId(1), student_id |-> "st1",
     activity_id |-> "act1", interaction_type |-> "student_prompt",
     content |-> <<"a">>, agent_id |-> None]

InitEvaluation ==
    /\ config = AllInjected
    /\ sessions \in {<<>>, <<[student_id |-> "st1", activity_id |-> "act1",
                             mode |-> "TUTOR"]>>}
    /\ sequences = {}
    /\ \E n \in 0..MaxSessionTraces : traces = [i \in 1..n |-> StoredTrace(i)]
    /\ risks = <<>>
    /\ cacheStore = {}
    /\ pc = "idle"
    /\ req \in [session_id : {SessionId(1), UnknownSessionId},
                provider : {"ollama", "text"}, answer : ModelAnswers]
    /\ loc = HttpAnswer(None, FALSE, NoEvaluation, None)
    /\ log = <<>>
    /\ nreq = 0
    /\ faults = 0
    /\ start = [risks |-> <<>>, cacheStore |-> {}]
    /\ prev = NoPrev
    /\ report = NoReport

\* lines 89-92: SessionNotFoundError is raised again by line 222
EvaluationSession ==
    /\ pc = "idle"
    /\ IF get_by_id(req.session_id) = NoSession
       THEN /\ pc' = "answered"
            /\ loc' = HttpAnswer(404, FALSE, NoEvaluation, "SessionNotFoundError")
       ELSE /\ pc' = "evaluation_traces"
            /\ loc' = loc
    /\ UNCHANGED <<config, sessions, sequences, traces, risks, cacheStore, req, log, nreq, faults, start, prev, report>>

\* lines 94-100: the HTTPException is raised again by line 224
EvaluationTraces ==
    /\ pc = "evaluation_traces"
    /\ IF get_by_session(req.session_id) = <<>>
       THEN /\ pc' = "answered"
            /\ loc' = HttpAnswer(404, FALSE, NoEvaluation, "No cognitive traces found")
       ELSE /\ pc' = "evaluation_generate"
            /\ loc' = loc
    /\ UNCHANGED <<config, sessions, sequences, traces, risks, cacheStore, req, log, nreq, faults, start, prev, report>>

\* lines 178-184; an exception of the call is none of JSONDecodeError,
\* SessionNotFoundError, HTTPException and reaches line 226
EvaluationGenerate ==
    /\ pc = "evaluation_generate"
    /\ log' = Append(log, "llm.generate")
    /\ IF llm_generate(req.provider, req.answer).error # None
       THEN /\ pc' = "answered"
            /\ loc' = HttpAnswer(500, FALSE, NoEvaluation, "Error generating evaluation")
       ELSE /\ pc' = "evaluation_parse"
            /\ loc' = loc
    /\ UNCHANGED <<config, sessions, sequences, traces, risks, cacheStore, req, nreq, faults, start, prev, report>>

\* lines 186-219 and 226-228: json.loads, then eval_data["planning"] and the
\* other keys; JSONDecodeError alone leads to the fallback, KeyError and
\* TypeError to the 500 of line 228
EvaluationParse ==
    /\ pc = "evaluation_parse"
    /\ LET session == get_by_id(req.session_id)
           eval_data == json_loads(llm_generate(req.provider, req.answer).text)
       IN  loc' =
             IF eval_data.error = "JSONDecodeError"
             THEN HttpAnswer(200, TRUE,
                      _generate_fallback_evaluation(req.session_id, session.student_id,
                          session.activity_id, Len(get_by_session(req.session_id))),
                      "Process evaluation generated (fallback mode)")
             ELSE IF eval_data.kind = "dict" /\ EvaluationKeys \subseteq eval_data.keys
             THEN HttpAnswer(200, TRUE,
                      [kind |-> "evaluation", session_id |-> req.session_id,
                       student_id |-> session.student_id,
                       activity_id |-> session.activity_id, interaction_count |-> 0],
                      "Process evaluation generated successfully")
             ELSE HttpAnswer(500, FALSE, NoEvaluation, "Error generating evaluation")
    /\ pc' = "answered"
    /\ UNCHANGED <<config, sessions, sequences, traces, risks, cacheStore, req, log, nreq, faults, start, prev, report>>

NextEvaluation ==
    \/ EvaluationSession
    \/ EvaluationTraces
    \/ EvaluationGenerate
    \/ EvaluationParse

SpecEvaluation == InitEvaluation /\ [][NextEvaluation]_vars

----------------------------------------------------------------------------
(* C23 *)

\* the model returned something other than the JSON object asked for
MalformedAnswer == req.answer # JsonObject(EvaluationKeys)

\* C23: for an existing session with at least one trace,
\* generate_process_evaluation never answers with an HTTP 500 when the model
\* returns malformed JSON: it answers 200 with the fallback evaluation of that
\* session, student and activity.
C23_MalformedJsonFallsBack ==
    (/\ pc = "answered"
     /\ get_by_id(req.session_id) # NoSession
     /\ get_by_session(req.session_id) # <<>>
     /\ MalformedAnswer) =>
        /\ loc.status = 200 /\ loc.success
        /\ loc.data = _generate_fallback_evaluation(req.session_id,
                          get_by_id(req.session_id).student_id,
                          get_by_id(req.session_id).activity_id,
                          Len(get_by_session(req.session_id)))

----------------------------------------------------------------------------
(* C24 *)

\* the cache entries a tutor request with the current prompt, response_type
\* and cognitive_state may be served from, or writes
EntriesOfRequest(store) ==
    {e \in store : /\ e.key.prompt = strip(req.prompt)
                   /\ e.key.mode = "TUTOR"
                   /\ e.key.response_type = loc.response_type
                   /\ e.key.cognitive_state = loc.classification.cognitive_state}

\* C24: within one tutor request the cache lookup and the cache store use the
\* same key inputs (prompt, mode TUTOR, response_type, cognitive_state), and a
\* response stored for one response_type or cognitive_state is never returned
\* for a request with the same prompt text but another response_type or
\* cognitive_state.
C24_CacheKeysDoNotCollide ==
    /\ (TutorResponded /\ loc.response.from_cache = "true") =>
          /\ \E e \in EntriesOfRequest(start.cacheStore) : e.response = loc.response.text
          /\ ~Called("cache.set") /\ cacheStore = start.cacheStore
    /\ (TutorResponded /\ Called("cache.get") /\ EntriesOfRequest(start.cacheStore) = {}) =>
          /\ loc.response.from_cache = "false"
          /\ Called("llm.generate")
    /\ Called("cache.set") =>
          /\ EntriesOfRequest(start.cacheStore) = {}
          /\ EntriesOfRequest(cacheStore) =
                 {[key |-> [prompt |-> strip(req.prompt), mode |-> "TUTOR",
                            response_type |-> loc.response_type,
                            cognitive_state |-> loc.classification.cognitive_state],
                   response |-> loc.message.val]}
          /\ cacheStore \ EntriesOfRequest(cacheStore) = start.cacheStore

\* a tutor request with the prompt of a cached response, but another strategy,
\* was answered by the language model
C24_Witness ==
    /\ TutorResponded
    /\ loc.response.from_cache = "false"
    /\ \E e \in start.cacheStore :
          /\ e.key.prompt = strip(req.prompt)
          /\ e.key.cognitive_state = loc.classification.cognitive_state
          /\ e.key.response_type # loc.response_type
    /\ Called("llm.generate") /\ Called("cache.set")

----------------------------------------------------------------------------
(* C25 *)

\* the text of _generate_clarification_request, lines 577-587
ClarificationRequest == <<"clarification-request">>

\* the strategy of the current request is none of the three the handler names
UnknownStrategy ==
    loc.response_type \notin
        {None, "socratic_questioning", "conceptual_explanation", "guided_hints"}

\* C25: for a strategy whose response_type is none of socratic_questioning,
\* conceptual_explanation or guided_hints (for example "unknown"), the tutor
\* response is the clarification request, produced without any language model
\* call.
C25_UnknownStrategyAsksForClarification ==
    (TutorResponded /\ UnknownStrategy /\ loc.response.from_cache # "true") =>
        /\ loc.response.text = ClarificationRequest
        /\ LLMCalls = 0

----------------------------------------------------------------------------
(* AIGateway.get_risk_report, lines 1026-1061                               *)

ReportStudents == {"st1", "st2"}
ReportActivities == {"act1", "act2"}

\* a row of the risks table as RiskRepository.create stores it from the Risk
\* built by _persist_risk: it carries the session_id of the request
StoredRisks ==
    {[id |-> <<1, "block">>, session_id |-> SessionId(1), student_id |-> st,
      activity_id |-> act, risk_type |-> "cognitive_delegation", risk_level |-> lv,
      dimension |-> "cognitive", trace_ids |-> <<<<1, "input">>>>] :
        st \in ReportStudents, act \in ReportActivities, lv \in RiskLevels}

\* Risk(**kwargs): pydantic raises ValidationError when one of the fields Risk
\* declares without a default (risk.py lines 65-77) is missing
RiskModel(kwargs) ==
    IF {"id", "session_id", "student_id", "activity_id", "risk_type", "risk_level",
        "dimension", "description"} \subseteq DOMAIN kwargs
    THEN [error |-> None, risk |-> kwargs]
    ELSE [error |-> "ValidationError", risk |-> kwargs]

\* lines 1047-1057: the keyword arguments get_risk_report builds a Risk from
RiskOfRow(db_risk) ==
    RiskModel([id |-> db_risk.id, student_id |-> db_risk.student_id,
               activity_id |-> db_risk.activity_id, risk_type |-> db_risk.risk_type,
               risk_level |-> db_risk.risk_level, dimension |-> db_risk.dimension,
               description |-> <<>>, evidence |-> <<>>,
               trace_ids |-> db_risk.trace_ids])

Reverse(s) == [i \in 1..Len(s) |-> s[Len(s) + 1 - i]]

\* RiskRepository.get_by_student: the student's rows, newest first
risks_get_by_student(student_id) ==
    Reverse(SelectSeq(risks, LAMBDA row : row.student_id = student_id))

\* lines 1046-1058: the loop over the rows, until a Risk cannot be built
RECURSIVE BuildReport(_, _)
BuildReport(rows, built) ==
    IF rows = <<>> THEN [error |-> None, report |-> built]
    ELSE IF RiskOfRow(Head(rows)).error # None
    THEN [error |-> RiskOfRow(Head(rows)).error, report |-> built]
    ELSE BuildReport(Tail(rows), add_risk(built, RiskOfRow(Head(rows)).risk))

InitRiskQuery ==
    /\ config \in {AllInjected, [AllInjected EXCEPT !.risk_repo = FALSE]}
    /\ sessions = <<>>
    /\ sequences = {}
    /\ traces = <<>>
    /\ \E n \in 0..MaxStoredRisks : risks \in [1..n -> StoredRisks]
    /\ cacheStore = {}
    /\ pc = "idle"
    /\ req \in [student_id : ReportStudents, activity_id : ReportActivities]
    /\ loc = [outcome |-> None, error |-> None]
    /\ log = <<>>
    /\ nreq = 0
    /\ faults = 0
    /\ start = [risks |-> <<>>, cacheStore |-> {}]
    /\ prev = NoPrev
    /\ report = NoReport

\* lines 1026-1061
get_risk_report ==
    /\ pc = "idle"
    /\ pc' = "reported"
    /\ LET mine == SelectSeq(risks_get_by_student(req.student_id),
                             LAMBDA row : row.activity_id = req.activity_id)
           built == BuildReport(mine, NoReport)
       IN  IF ~config.risk_repo \/ mine = <<>>
           THEN /\ loc' = [outcome |-> "none", error |-> None]
                /\ report' = report
           ELSE IF built.error # None
           THEN /\ loc' = [outcome |-> "raised", error |-> built.error]
                /\ report' = report
           ELSE /\ loc' = [outcome |-> "report", error |-> None]
                /\ report' = built.report
    /\ UNCHANGED <<config, sessions, sequences, traces, risks, cacheStore, req, log, nreq, faults, start, prev>>

SpecRiskQuery == InitRiskQuery /\ [][get_risk_report]_vars

----------------------------------------------------------------------------
(* C26 *)

\* the stored risks of the student and activity asked for
RisksAskedFor ==
    SelectSeq(risks, LAMBDA row : /\ row.student_id = req.student_id
                                  /\ row.activity_id = req.activity_id)

\* C26: get_risk_report(student_id, activity_id) returns no report when the
\* student has no stored risk for that activity, and otherwise returns a
\* RiskReport built by add_risk over exactly the student's stored risks of that
\* activity, with total_risks equal to their number; it never fails on risks
\* stored by the pipeline, every one of which carries a session_id.
C26_ReportOverStoredRisks ==
    /\ \A i \in 1..Len(risks) : risks[i].session_id # <<>>
    /\ pc = "reported" =>
          IF RisksAskedFor = <<>>
          THEN loc.outcome = "none"
          ELSE config.risk_repo =>
                  /\ loc.outcome = "report"
                  /\ report.total_risks = Len(RisksAskedFor)
                  /\ Len(report.risks) = Len(RisksAskedFor)
                  /\ \A i \in 1..Len(report.risks) :
                        /\ report.risks[i].student_id = req.student_id
                        /\ report.risks[i].activity_id = req.activity_id

----------------------------------------------------------------------------
(* C27 *)

\* the risk repository was asked to write the risk of the current request and
\* the table has no row of it: the write failed
RiskWriteFailed == Called("risk_repo.create") /\ RisksWritten = <<>>

\* C27: a failed risk write on the governance-block path is surfaced to the
\* caller as a failure (it is not retried): process_interaction never returns
\* a blocked response after the risk write failed, and the input and
\* intervention traces already written for that request stay written.
C27_FailedRiskWriteIsSurfaced ==
    RiskWriteFailed =>
        /\ loc.should_block
        /\ Raised /\ loc.raised_by = "risk_write"
        /\ Count(log, "risk_repo.create") = 1
        /\ [i \in 1..Len(WrittenBy(traces)) |-> WrittenBy(traces)[i].interaction_type]
               \in BlockedTraceWrites
        /\ (config.trace_repo /\ faults = 1) => Len(WrittenBy(traces)) = 2

\* the risk write of a blocked request failed, the call raised, both traces
\* are in the table
C27_Witness ==
    /\ RiskWriteFailed
    /\ Raised
    /\ Len(WrittenBy(traces)) = 2
    /\ WrittenBy(traces)[2].interaction_type = "tutor_intervention"

----------------------------------------------------------------------------
(* C28 *)

CannedTexts == {SocraticFallback, ConceptualFallback, GuidedHintsFallback}

\* a tutor request with a cache was answered by a generator
AnsweredOnMiss ==
    TutorResponded /\ config.cache /\ loc.response.from_cache = "false"

\* C28: in tutor mode with a cache configured, every cache miss ends with
\* exactly one cache write of the returned text under the prompt, mode and
\* context of the lookup, also when that text is the canned fallback of a
\* failed language model call; a later identical request then returns that
\* canned text with from_cache = true and calls no language model.
C28_FallbackIsCached ==
    /\ AnsweredOnMiss =>
          /\ Count(log, "cache.set") = 1
          /\ Before("cache.get", "cache.set")
          /\ \E e \in EntriesOfRequest(cacheStore) : e.response = loc.response.text
          /\ loc.llm_failed => loc.response.text \in CannedTexts
    /\ (RepeatedCall /\ TutorResponded /\ config.cache
            /\ prev.response.text \in CannedTexts) =>
          /\ loc.response.from_cache = "true"
          /\ loc.response.text = prev.response.text
          /\ LLMCalls = 0

\* the second of two identical tutor requests returned from the cache the
\* canned text the first one got when the language model failed
C28_Witness ==
    /\ RepeatedCall /\ TutorResponded /\ config.cache
    /\ prev.response.from_cache = "false"
    /\ prev.response.text \in CannedTexts
    /\ loc.response.from_cache = "true"
    /\ loc.response.text = prev.response.text
    /\ LLMCalls = 0

----------------------------------------------------------------------------
(* SessionRepository.end_session, update_mode and update_status             *)
(* (database/repositories.py lines 325-394), called by two callers at once, *)
(* each on a database session of its own                                    *)

Callers == {"c1", "c2"}

\* the columns of a sessions row the three methods touch, and who holds the
\* row lock
ActiveSession ==
    [mode |-> "TUTOR", status |-> "active", end_time |-> None, locked_by |-> None]

\* Python's None where a sessions row is expected
NoRow == [mode |-> None, status |-> None, end_time |-> None, locked_by |-> None]

\* the calls a caller can make
RepositoryCalls ==
    {[op |-> "end_session", arg |-> None, session_id |-> id] :
        id \in {SessionId(1), UnknownSessionId}}
    \cup {[op |-> "update_mode", arg |-> m, session_id |-> id] :
        m \in {"TUTOR", "EVALUATOR"}, id \in {SessionId(1), UnknownSessionId}}
    \cup {[op |-> "update_status", arg |-> st, session_id |-> id] :
        st \in {"active", "paused"}, id \in {SessionId(1), UnknownSessionId}}

\* the attributes each method assigns to the loaded row: lines 340-341, 365
\* and 387
Assigned(call, row) ==
    CASE call.op = "end_session" ->
             [row EXCEPT !.end_time = "set", !.status = "completed"]
      [] call.op = "update_mode" -> [row EXCEPT !.mode = call.arg]
      [] call.op = "update_status" -> [row EXCEPT !.status = call.arg]

\* the row exists
Known(session_id) == \E n \in 1..Len(sessions) : SessionId(n) = session_id

\* a variant of the lock that never makes a caller wait
RowIsFreeAlways(row, caller) == TRUE

\* SELECT ... FOR UPDATE waits while another transaction holds the row lock;
\* a dialect without FOR UPDATE (config.for_update = FALSE) reads at once
RowIsFree(row, caller) ==
    config.for_update => row.locked_by \in {None, caller}

InitRepository ==
    /\ config \in [for_update : BOOLEAN]
    /\ sessions = <<ActiveSession>>
    /\ sequences = {}
    /\ traces = <<>>
    /\ risks = <<>>
    /\ cacheStore = {}
    /\ pc = [c \in Callers |-> "called"]
    /\ req \in [Callers -> RepositoryCalls]
    /\ loc = [c \in Callers |-> [session |-> NoRow, result |-> NoRow]]
    /\ log = <<>>
    /\ nreq = 0
    /\ faults = 0
    /\ start = [risks |-> <<>>, cacheStore |-> {}]
    /\ prev = NoPrev
    /\ report = NoReport

\* lines 336-337, 361-362, 383-384: select(...).with_for_update() and
\* scalar_one_or_none(); on an unknown id the method returns None (lines 346,
\* 369, 391)
SelectForUpdate(caller) ==
    /\ pc[caller] = "called"
    /\ IF Known(req[caller].session_id)
       THEN /\ RowIsFree(sessions[1], caller)
            /\ sessions' = IF config.for_update
                           THEN <<[sessions[1] EXCEPT !.locked_by = caller]>>
                           ELSE sessions
            /\ loc' = [loc EXCEPT ![caller].session = sessions[1]]
            /\ pc' = [pc EXCEPT ![caller] = "loaded"]
       ELSE /\ sessions' = sessions
            /\ loc' = [loc EXCEPT ![caller].result = NoRow]
            /\ pc' = [pc EXCEPT ![caller] = "returned"]
    /\ log' = Append(log, <<caller, "select">>)
    /\ UNCHANGED <<config, sequences, traces, risks, cacheStore, req, nreq, faults, start, prev, report>>

\* lines 340-342, 365-366, 387-388: the assignments and db.commit(); the
\* UPDATE sets the columns whose value differs from the loaded one, and the
\* commit releases the row lock
Commit(caller) ==
    /\ pc[caller] = "loaded"
    /\ LET loaded == loc[caller].session
           assigned == Assigned(req[caller], loaded)
       IN  sessions' =
             <<[column \in DOMAIN sessions[1] |->
                  IF column = "locked_by"
                  THEN IF sessions[1].locked_by = caller THEN None
                       ELSE sessions[1].locked_by
                  ELSE IF assigned[column] # loaded[column] THEN assigned[column]
                  ELSE sessions[1][column]]>>
    /\ pc' = [pc EXCEPT ![caller] = "committed"]
    /\ log' = Append(log, <<caller, "commit">>)
    /\ UNCHANGED <<config, sequences, traces, risks, cacheStore, req, loc, nreq, faults, start, prev, report>>

\* lines 343-344, 367-368, 389-390: db.refresh(session) and return session
Refresh(caller) ==
    /\ pc[caller] = "committed"
    /\ loc' = [loc EXCEPT ![caller].session = sessions[1],
                          ![caller].result = [sessions[1] EXCEPT !.locked_by = None]]
    /\ pc' = [pc EXCEPT ![caller] = "returned"]
    /\ UNCHANGED <<config, sessions, sequences, traces, risks, cacheStore, req, log, nreq, faults, start, prev, report>>

NextRepository ==
    \E caller \in Callers :
        \/ SelectForUpdate(caller)
        \/ Commit(caller)
        \/ Refresh(caller)

SpecRepository == InitRepository /\ [][NextRepository]_vars

----------------------------------------------------------------------------
(* C29 *)

\* the row after the call, made alone on the row
After(call, row) ==
    IF call.session_id = SessionId(1) THEN Assigned(call, row) ELSE row

BothReturned == \A c \in Callers : pc[c] = "returned"

\* C29: end_session, update_mode and update_status each hold a row lock from
\* their read to their commit, so concurrent calls on the same session are
\* serialized and no update is lost: after a concurrent update_mode(m) and
\* end_session have both completed the session has mode = m and status =
\* completed with end_time set; on an unknown session id each returns None and
\* changes nothing.
C29_UpdatesAreSerialized ==
    /\ config.for_update =>
          /\ \A c \in Callers : pc[c] = "loaded" <=> sessions[1].locked_by = c
          /\ \E c \in Callers : pc[c] # "loaded"
    /\ BothReturned =>
          /\ [sessions[1] EXCEPT !.locked_by = None]
                 \in {After(req["c2"], After(req["c1"], ActiveSession)),
                      After(req["c1"], After(req["c2"], ActiveSession))}
          /\ \A c, d \in Callers :
                (/\ req[c].op = "update_mode" /\ req[d].op = "end_session"
                 /\ req[c].session_id = SessionId(1)
                 /\ req[d].session_id = SessionId(1)) =>
                    /\ sessions[1].mode = req[c].arg
                    /\ sessions[1].status = "completed"
                    /\ sessions[1].end_time = "set"
    /\ \A c \in Callers :
          (pc[c] = "returned" /\ req[c].session_id = UnknownSessionId) =>
              loc[c].result = NoRow

\* update_mode("EVALUATOR") and end_session were called together on the same
\* session, the second reading only after the first committed, and both have
\* returned
C29_Witness ==
    /\ BothReturned
    /\ config.for_update
    /\ req["c1"] = [op |-> "update_mode", arg |-> "EVALUATOR", session_id |-> SessionId(1)]
    /\ req["c2"] = [op |-> "end_session", arg |-> None, session_id |-> SessionId(1)]
    /\ log = <<<<"c2", "select">>, <<"c2", "commit">>, <<"c1", "select">>, <<"c1", "commit">>>>
    /\ sessions[1].mode = "EVALUATOR" /\ sessions[1].status = "completed"


----------------------------------------------------------------------------
(* update_session, PATCH /sessions/{session_id}                             *)
(* (api/routers/sessions.py lines 285-356), one request after another       *)

InitUpdate ==
    /\ config = [for_update |-> TRUE]
    /\ sessions = <<ActiveSession>>
    /\ sequences = {}
    /\ traces = <<>>
    /\ risks = <<>>
    /\ cacheStore = {}
    /\ pc = "idle"
    /\ req = [session_id |-> UnknownSessionId, mode |-> None, status |-> None]
    /\ loc = [outcome |-> None, session |-> NoRow]
    /\ log = <<>>
    /\ nreq = 0
    /\ faults = 0
    /\ start = [risks |-> <<>>, cacheStore |-> {}]
    /\ prev = NoPrev
    /\ report = NoReport

\* lines 307-356. session_update.mode is an AgentMode or None and
\* session_update.status a SessionStatus (enums.py lines 12-17) or None; the
\* handler calls update_mode when a mode is given, end_session when the status
\* is completed or aborted and update_status for any other status, and answers
\* with the row the last call returned
update_session(session_id, mode, status) ==
    /\ nreq < MaxRequests
    /\ nreq' = nreq + 1
    /\ pc' = "answered"
    /\ req' = [session_id |-> session_id, mode |-> mode, status |-> status]
    /\ IF ~Known(session_id)
       THEN /\ loc' = [outcome |-> "SessionNotFoundError", session |-> NoRow]
            /\ sessions' = sessions
       ELSE LET n == CHOOSE k \in 1..Len(sessions) : SessionId(k) = session_id
                db_session == sessions[n]
                with_mode ==
                    IF mode # None
                    THEN Assigned([op |-> "update_mode", arg |-> mode,
                                   session_id |-> session_id], db_session)
                    ELSE db_session
                with_status ==
                    IF status = None THEN with_mode
                    ELSE IF status \in {"completed", "aborted"}
                    THEN Assigned([op |-> "end_session", arg |-> None,
                                   session_id |-> session_id], with_mode)
                    ELSE Assigned([op |-> "update_status", arg |-> status,
                                   session_id |-> session_id], with_mode)
            IN  /\ sessions' = [sessions EXCEPT ![n] = with_status]
                /\ loc' = [outcome |-> "200", session |-> with_status]
    /\ log' = Append(log, <<session_id, mode, status>>)
    /\ UNCHANGED <<config, sequences, traces, risks, cacheStore, faults, start, prev, report>>

SpecUpdate ==
    InitUpdate /\ [][\E session_id \in {SessionId(1), UnknownSessionId},
                        mode \in {None, "TUTOR", "EVALUATOR"},
                        status \in {None, "active", "completed", "aborted", "paused"} :
                            update_session(session_id, mode, status)]_vars

----------------------------------------------------------------------------
(* C30 *)

\* C30: after update_session (PATCH /sessions/{id}) succeeds with a requested
\* status S among active, paused, completed and aborted, the stored status of
\* the session equals S, and end_time is set exactly when S is completed or
\* aborted.
C30_StoredStatusIsRequested ==
    (pc = "answered" /\ loc.outcome = "200" /\ req.status # None) =>
        /\ sessions[1].status = req.status
        /\ sessions[1].end_time # None <=> req.status \in {"completed", "aborted"}

====
